---- MODULE Spec2Model ----
(***************************************************************************)
(* A model of the agent-team orchestration kernel: the inbox store, the    *)
(* task store, the tool executor, the agent turn engine and the session    *)
(* scheduler.                                                              *)
(*                                                                         *)
(* Concurrency is asyncio's: one thread, tasks interleave only where a     *)
(* coroutine really suspends.  The store-level specifications SpecInbox    *)
(* and SpecTasks split every store operation at its lock (acquire + read,  *)
(* then write + release) so that mutual exclusion is something the check   *)
(* can refute; the other specifications use the operations as atomic steps.*)
(*                                                                         *)
(* The callers under src/ use a richer ProtocolService, TaskStore and      *)
(* AgentConfig than the variants under src/ declare (a `target` argument,  *)
(* create_shutdown_approved, create_task_assignment, create_task_completed,*)
(* the `deleted` marker, the `role` field).  Those parts are modelled from  *)
(* the specification and are marked as such where they are defined.        *)
(***************************************************************************)
EXTENDS Integers, Sequences, FiniteSets, TLC

\* ---------------------------------------------------------------- bounds
NumProcs == 2          \* concurrent callers of a store
MaxCalls == 3          \* store operations started in one behaviour
MaxBroadcasts == 2     \* events broadcast to the session
MaxYields == 2         \* strings one stream yields

\* ---------------------------------------------------------------- names
NoAgent == "none"      \* Python None
Absent == "absent"     \* a key that a dict does not hold
StoreAgents == {"a", "b"}
Procs == 1..NumProcs
NoProc == 0

VARIABLES
  inbox,      \* agent -> sequence of messages: inboxes/<agent>.json
  tasks,      \* task id -> task record: tasks/<id>.json, one entry per file
  hwm,        \* the number held by tasks/.highwatermark
  ilock,      \* agent -> the caller holding InboxStore._locks[agent], or NoProc
  tlock,      \* the caller holding TaskStore._lock, or NoProc
  pc,         \* caller -> "idle" | "acq" | "locked"
  op,         \* caller -> the store operation it is executing
  loc,        \* caller -> what the operation read after taking the lock
  ret,        \* caller -> the value its last operation returned
  nextUid,    \* identity of the next message dict constructed
  ncalls,     \* operations started so far
  appended,   \* history: agent -> uids in the order append_message wrote them
  delivered,  \* history: uid -> number of read_unread calls that returned it
  clean,      \* history: agent -> a read_unread completed and no append since
  issued,     \* history: the ids create_task returned, in allocation order
  configs,    \* TeamEngine.agent_configs: the roster, a sequence of AgentConfig
  runners,    \* TeamEngine.runners: name -> the fields of its AgentRunner
  call,       \* history: the last ToolExecutor.execute call and what it fired
  running,    \* TeamEngine._running
  spc,        \* where TeamEngine._task, the scheduler task, is suspended
  sloc,       \* the locals idle_seconds and last_nudge_at of _orchestration_loop,
              \* with quiet (history): the consecutive iterations up to the
              \* current one that found no unread message, and exit: why the
              \* loop was left
  tpc,        \* agent -> where its _run_agent task of the current round is
  turn,       \* agent -> loop_count of its turn, and history of that turn
  stopPc,     \* where the caller of stop() is
  ev,         \* history: how many events of each kind the engine emitted
  used,       \* how many external inputs of each kind were drawn so far
  conv,       \* AgentRunner.conversation_history of one runner, with the
              \* value it had before the last _maybe_compact_history (history)
  wire,       \* one envelope, its serialized text and what parsing returned
  lazy,       \* InboxStore.inbox_dir exists (dir), and the last store call of
              \* a new store with what it returned
  sse,        \* SSEBroadcaster._subscribers of one session (entry, subs), the
              \* queue and the generator of every stream, with the events
              \* broadcast so far and what every stream yielded (history)
  rturn       \* one run_turn of one runner: its conversation_history, the
              \* list messages, loop_count and should_stop, with the last
              \* response and what was executed for it (history)

storeVars == <<inbox, tasks, hwm>>
procVars == <<ilock, tlock, pc, op, loc, ret, nextUid, ncalls>>
histVars == <<appended, delivered, clean, issued>>
pureVars == <<conv, wire, lazy, sse, rturn>>
engVars == <<configs, runners, call, pureVars>>
sessVars == <<running, spc, sloc, tpc, turn, stopPc, ev, used>>
vars == <<storeVars, procVars, histVars, engVars, sessVars>>

\* ---------------------------------------------------------------- messages
\* The text of a message: plain text, or the serialization of a JSON object
\* (k = "json") whose "type" key holds `type`, or Absent.
\* The envelope fields are those of the protocol set; timestamp is left out.
PlainText ==
  [k |-> "plain", body |-> "t", type |-> Absent, from |-> Absent, reason |-> Absent,
   idleReason |-> Absent, taskId |-> Absent, taskSubject |-> Absent,
   requestId |-> Absent, approve |-> Absent, plan |-> Absent, target |-> Absent]
\* the None that parse_protocol_message returns for a text that is no envelope
NoParse == [PlainText EXCEPT !.k = "none", !.body = ""]

\* The dict append_message builds.  summary, timestamp and color are carried
\* by the program but never read by the code modelled here; uid stands for
\* the identity of the dict (0 where no property needs it).
Message(from, text, uid) == [from |-> from, text |-> text, read |-> FALSE, uid |-> uid]

RECURSIVE SelectUnread(_)
SelectUnread(messages) ==
  IF messages = <<>> THEN <<>>
  ELSE IF ~Head(messages).read
       THEN <<Head(messages)>> \o SelectUnread(Tail(messages))
       ELSE SelectUnread(Tail(messages))

MarkAll(messages) == [i \in DOMAIN messages |-> [messages[i] EXCEPT !.read = TRUE]]

\* read_unread: what the file holds afterwards (it is rewritten only when
\* some message was unread).
ReadUnreadKeep(messages) == messages
ReadUnreadFile(messages) ==
  IF SelectUnread(messages) # <<>> THEN MarkAll(messages) ELSE messages

\* mark_read: indices is None (all) or a collection of positions.
MarkIndices(messages, all, indices) ==
  [i \in DOMAIN messages |->
     IF (all \/ i \in indices) /\ ~messages[i].read
     THEN [messages[i] EXCEPT !.read = TRUE] ELSE messages[i]]

AllRead(messages) == \A i \in DOMAIN messages : messages[i].read
Uids(messages) == [i \in DOMAIN messages |-> messages[i].uid]

\* `async with self._get_lock(agent)`: the lock of an agent is created on the
\* first reference and kept, so every caller naming the agent gets the same
\* lock; acquire proceeds only while nobody holds it.
LockNeverHeld(locks, agent) == TRUE
CanAcquire(locks, agent) == locks[agent] = NoProc

\* ---------------------------------------------------------------- tasks
\* The metadata of a task is a map from keys to values; a key the map does
\* not hold is mapped to Absent here, and Null is the null of an update.
MetaKeys == {"priority", "source", "tag"}
Null == "null"
NoMeta == [k \in MetaKeys |-> Absent]
NoTask == [id |-> 0, subject |-> "", status |-> "", owner |-> NoAgent, metadata |-> NoMeta]
NewTaskInProgress(id, subject, owner) ==
  [id |-> id, subject |-> subject, status |-> "in_progress", owner |-> owner,
   metadata |-> NoMeta]
NewTask(id, subject, owner) ==
  [id |-> id, subject |-> subject, status |-> "pending", owner |-> owner, metadata |-> NoMeta]

\* _next_id: the value written back to .highwatermark and returned.
NextIdStale(current) == current
NextId(current) == current + 1

\* An update dict: each of status and owner is a value or Absent; metadata
\* is the map of the update, empty when the update has no metadata.
NoUpdate == [status |-> Absent, owner |-> Absent, metadata |-> NoMeta]
\* The richer update_task merges the metadata of the update key by key: a
\* null removes the key, any other value is set, other keys are kept.
MergeMetadataReplacing(meta, upd) == [k \in MetaKeys |-> IF upd[k] = Null THEN Absent ELSE upd[k]]
MergeMetadata(meta, upd) ==
  [k \in MetaKeys |-> IF upd[k] = Absent THEN meta[k]
                      ELSE IF upd[k] = Null THEN Absent ELSE upd[k]]
\* update_task: every key of allowed_fields overwrites the field.
UpdateFields(task, upd) ==
  [task EXCEPT !.status = IF upd.status = Absent THEN @ ELSE upd.status,
               !.owner = IF upd.owner = Absent THEN @ ELSE upd.owner,
               !.metadata = MergeMetadata(@, upd.metadata)]
\* The richer update_task: a resulting status of deleted purges the record
\* and the returned dict carries deleted=true.
IsPurgedNever(task) == FALSE
IsPurged(task) == task.status = "deleted"

\* _write_task and the unlink of delete_task
WriteTask(ts, task) == [i \in DOMAIN ts \cup {task.id} |-> IF i = task.id THEN task ELSE ts[i]]
RemoveTask(ts, id) == [i \in DOMAIN ts \ {id} |-> ts[i]]

\* `async with self._lock` of the task store.
TaskLockFree(lock) == lock = NoProc

\* ---------------------------------------------------------------- defaults
NoOp == [name |-> "none", agent |-> NoAgent, msg |-> Message("", PlainText, 0),
         all |-> FALSE, indices |-> {}, taskId |-> 0, upd |-> NoUpdate]
NoRet == [name |-> "none", agent |-> NoAgent, val |-> <<>>, flag |-> FALSE]

ProcsIdle ==
  /\ pc = [p \in Procs |-> "idle"]
  /\ op = [p \in Procs |-> NoOp]
  /\ loc = [p \in Procs |-> <<>>]
  /\ ret = [p \in Procs |-> NoRet]
  /\ tlock = NoProc
  /\ nextUid = 1
  /\ ncalls = 0

EmptyTasks == [i \in {} |-> NoTask]
TaskStoreNew == tasks = EmptyTasks /\ hwm = 0

\* the taskId of a call whose arguments hold no taskId key
NoKey == 0
NoArgs == [name |-> "none", type |-> Absent, recipient |-> Absent, content |-> PlainText,
           request_id |-> Absent, approve |-> Absent,
           taskId |-> NoKey, owner |-> Absent, status |-> Absent,
           subject |-> Absent, metadata |-> NoMeta]
\* task: the record a task tool returned; listed: the list TaskList returned;
\* changed, assigned, completed, sent: how often the call fired on_task_changed,
\* on_task_assigned, on_task_completed and on_message_sent
NoCall == [agent |-> NoAgent, args |-> NoArgs, existed |-> FALSE, prev |-> NoTask,
           changed |-> 0, assigned |-> 0, completed |-> 0, deleted |-> FALSE,
           result |-> "none", task |-> NoTask, listed |-> <<>>, sent |-> 0]
\* TeamEngine.__init__: not running, no scheduler task; nothing emitted yet.
\* History of one turn: trace, the events the runner emitted in order, with
\* idle_appended for the append of the idle_notification (agent_response and
\* task_update are left out); errors, tools: the error events emitted and the
\* tools executed; loops: the loops that turn_end reported; requested: the
\* positions of the inbox messages that build_messages put into the request;
\* raised: the error events _run_agent emitted for the agent; before: how
\* the agent's turn of the round before ended, while its turn of this round
\* has not taken its first step.
NoTurn == [loop_count |-> 0, kind |-> "none", how |-> "none", chats |-> 0, turn_end |-> "none",
           sawRequest |-> FALSE, requestId |-> Absent, echoed |-> Absent,
           apprAdded |-> 0, apprToLead |-> 0, unreadAfter |-> FALSE,
           idleBase |-> 0, idleAdded |-> 0, idleStep |-> 0,
           trace |-> <<>>, errors |-> 0, tools |-> 0, loops |-> 0, requested |-> {},
           raised |-> 0, before |-> "none"]
NoEvents == [session_start |-> 0, session_end |-> 0, error |-> 0, stop_protocol |-> 0]
NoInputs == [user |-> 0, effects |-> 0, stops |-> 0, nudges |-> 0]
NoLocals == [idle_seconds |-> 0, last_nudge_at |-> 0, quiet |-> 0, exit |-> "none"]
NoSession ==
  /\ running = FALSE
  /\ spc = "none"
  /\ sloc = NoLocals
  /\ tpc = [a \in {} |-> "none"]
  /\ turn = [a \in {} |-> NoTurn]
  /\ stopPc = "none"
  /\ ev = NoEvents
  /\ used = NoInputs

\* a runner's history is empty at construction; no envelope was made yet
\* conv.appends: 0 before a history was drawn, then 1 + the entries appended;
\* conv.compactions: 1 when the last step was a _maybe_compact_history
NoConv == [before |-> <<>>, history |-> <<>>, appends |-> 0, compactions |-> 0]
NoWire == [env |-> NoParse, text |-> <<>>, parsed |-> NoParse, stage |-> "none"]
\* InboxStore.__init__ creates no directory
NoLazy == [dir |-> FALSE, name |-> "none", agent |-> NoAgent, val |-> <<>>, appends |-> 0]
\* AgentRunner.__init__: conversation_history = []; no turn has begun
NoRun == [pc |-> "none", history |-> <<>>, messages |-> <<>>, loop_count |-> 0,
          should_stop |-> FALSE, chats |-> 0, first |-> 0, block |-> FALSE,
          calls |-> <<>>, executed |-> <<>>, results |-> <<>>]
\* SSEBroadcaster.__init__: no session has an entry
Streams == {"s1", "s2"}
NoSse == [entry |-> FALSE, subs |-> {}, log |-> <<>>,
          q |-> [s \in Streams |-> <<>>], out |-> [s \in Streams |-> <<>>],
          gen |-> [s \in Streams |-> "none"], from |-> [s \in Streams |-> 0]]
NoPure == conv = NoConv /\ wire = NoWire /\ lazy = NoLazy /\ sse = NoSse
          /\ rturn = NoRun

NoEngine ==
  /\ configs = <<>>
  /\ runners = [n \in {} |-> 0]
  /\ call = NoCall
  /\ NoSession
  /\ NoPure

\* ---------------------------------------------------------------- protocol
\* create_protocol_event: the text is the serialization of
\* {type, from, timestamp, **data}; a key of data overrides type and from.
CreateProtocolEvent(event_type, from_agent, data) ==
  LET base == [PlainText EXCEPT !.k = "json", !.body = "", !.type = event_type,
                                !.from = from_agent]
  IN [f \in DOMAIN base |-> IF f \in DOMAIN data THEN data[f] ELSE base[f]]

CreateIdleNotification(from_agent) ==
  CreateProtocolEvent("idle_notification", from_agent, [idleReason |-> "available"])

\* The constructors below are those of the richer ProtocolService.
CreateShutdownRequest(from_agent, reason, target) ==
  CreateProtocolEvent("shutdown_request", from_agent, [reason |-> reason, target |-> target])
CreateShutdownApproved(from_agent, request_id) ==
  IF request_id = "" \/ request_id = Absent
  THEN CreateProtocolEvent("shutdown_approved", from_agent, [k |-> "json"])
  ELSE CreateProtocolEvent("shutdown_approved", from_agent, [requestId |-> request_id])
CreateTaskAssignment(from_agent, task_id, subject) ==
  CreateProtocolEvent("task_assignment", from_agent, [taskId |-> task_id, taskSubject |-> subject])
CreateTaskCompleted(from_agent, task_id, subject) ==
  CreateProtocolEvent("task_completed", from_agent, [taskId |-> task_id, taskSubject |-> subject])
CreatePlanApprovalRequest(from_agent, request_id, content) ==
  CreateProtocolEvent("plan_approval_request", from_agent,
                      [requestId |-> request_id, plan |-> content])
CreatePlanApprovalResponse(from_agent, request_id, approve, content) ==
  CreateProtocolEvent("plan_approval_response", from_agent,
                      [requestId |-> request_id, approve |-> approve, reason |-> content])

\* parse_protocol_message: the parsed dict when the text is a JSON object
\* with a "type" key, else None.
ParseProtocolMessage(text) ==
  IF text.k = "json" /\ text.type # Absent THEN text ELSE NoParse

\* ---------------------------------------------------------------- inbox store, one step per operation
\* _read_raw: [] when the directory or the file does not exist.
ReadRaw(inb, agent) == IF agent \in DOMAIN inb THEN inb[agent] ELSE <<>>
\* _write_raw creates the file.
WriteRaw(inb, agent, messages) ==
  [x \in DOMAIN inb \cup {agent} |-> IF x = agent THEN messages ELSE inb[x]]
AppendMessage(inb, agent, from_agent, text) ==
  WriteRaw(inb, agent, Append(ReadRaw(inb, agent), Message(from_agent, text, 0)))
ReadUnread(inb, agent) ==
  IF SelectUnread(ReadRaw(inb, agent)) # <<>>
  THEN WriteRaw(inb, agent, MarkAll(ReadRaw(inb, agent)))
  ELSE inb

\* ---------------------------------------------------------------- hierarchy
\* AgentConfig: name, role and connections (role is the richer variant's).
Config(name, role, connections) == [name |-> name, role |-> role, connections |-> connections]
AgentNames(cfgs) == [i \in DOMAIN cfgs |-> cfgs[i].name]
NameSet(cfgs) == {cfgs[i].name : i \in DOMAIN cfgs}

\* role_lookup = {cfg.name: cfg.role ...}: the last config of a name wins.
RECURSIVE RoleLookup(_, _)
RoleLookup(cfgs, name) ==
  IF cfgs = <<>> THEN NoAgent
  ELSE IF cfgs[Len(cfgs)].name = name THEN cfgs[Len(cfgs)].role
       ELSE RoleLookup(SubSeq(cfgs, 1, Len(cfgs) - 1), name)

\* the first config with role leader, else the first agent
RECURSIVE FirstLeader(_)
FirstLeader(cfgs) ==
  IF cfgs = <<>> THEN NoAgent
  ELSE IF Head(cfgs).role = "leader" THEN Head(cfgs).name
       ELSE FirstLeader(Tail(cfgs))
TopLeader(cfgs) ==
  IF FirstLeader(cfgs) # NoAgent THEN FirstLeader(cfgs)
  ELSE IF cfgs # <<>> THEN cfgs[1].name ELSE NoAgent

\* the first connection that is a leader and is not the agent itself
RECURSIVE LeaderInConnectionsAny(_, _, _)
RECURSIVE LeaderInConnections(_, _, _)
LeaderInConnectionsAny(cfgs, name, conns) ==
  IF conns = <<>> THEN NoAgent
  ELSE IF RoleLookup(cfgs, Head(conns)) = "leader" THEN Head(conns)
       ELSE LeaderInConnectionsAny(cfgs, name, Tail(conns))
LeaderInConnections(cfgs, name, conns) ==
  IF conns = <<>> THEN NoAgent
  ELSE IF RoleLookup(cfgs, Head(conns)) = "leader" /\ Head(conns) # name THEN Head(conns)
       ELSE LeaderInConnections(cfgs, name, Tail(conns))

AgentLead(cfgs, cfg) ==
  IF cfg.name = TopLeader(cfgs) THEN NoAgent
  ELSE IF LeaderInConnections(cfgs, cfg.name, cfg.connections) # NoAgent
       THEN LeaderInConnections(cfgs, cfg.name, cfg.connections)
       ELSE TopLeader(cfgs)

TeamAgents(cfgs, cfg) ==
  IF cfg.connections # <<>> THEN <<cfg.name>> \o cfg.connections ELSE AgentNames(cfgs)

AGENT_COLORS == <<"blue", "green", "orange", "purple">>

\* _build_runners: self.runners[cfg.name] = AgentRunner(...), later configs
\* of a name replacing earlier ones.
LastIndexOf(cfgs, name) ==
  CHOOSE i \in DOMAIN cfgs :
    cfgs[i].name = name /\ \A j \in DOMAIN cfgs : cfgs[j].name = name => j <= i
BuildRunners(cfgs) ==
  [n \in NameSet(cfgs) |->
     LET i == LastIndexOf(cfgs, n) IN
       [lead_agent |-> AgentLead(cfgs, cfgs[i]),
        team_agents |-> TeamAgents(cfgs, cfgs[i]),
        is_leader |-> cfgs[i].role = "leader",
        color |-> AGENT_COLORS[((i - 1) % Len(AGENT_COLORS)) + 1]]]

\* ---------------------------------------------------------------- tool executor
\* Python truthiness of an argument fetched with args.get(...).
Truthy(v) == v \notin {Absent, NoAgent, ""}

\* What one tool call did: the stores afterwards and the callbacks it fired.
Effect(inb, ts, h) ==
  [inbox |-> inb, tasks |-> ts, hwm |-> h, existed |-> FALSE, prev |-> NoTask,
   changed |-> 0, assigned |-> 0, completed |-> 0, deleted |-> FALSE, result |-> "error",
   task |-> NoTask, listed |-> <<>>, sent |-> 0]
\* the handler raised (a KeyError for a missing argument)
Raised(inb, ts, h) == [Effect(inb, ts, h) EXCEPT !.result = "exception"]
\* execute: `except Exception` turns what a handler raised into an error result
ReturnedOrRaised(result) == IF result = "exception" THEN "raised" ELSE result
Returned(result) == IF result = "exception" THEN "error" ELSE result

\* _on_task_assigned: a task_assignment envelope to the owner.
OnTaskAssignedToSender(self, inb, owner, task) ==
  AppendMessage(inb, self, self, CreateTaskAssignment(self, task.id, task.subject))
OnTaskAssigned(self, inb, owner, task) ==
  AppendMessage(inb, owner, self, CreateTaskAssignment(self, task.id, task.subject))
\* _on_task_completed: a task_completed envelope to the parent, if any.
OnTaskCompletedToOwner(self, lead, inb, task) ==
  IF lead # NoAgent /\ lead # self
  THEN AppendMessage(inb, task.owner, self, CreateTaskCompleted(self, task.id, task.subject))
  ELSE inb
OnTaskCompleted(self, lead, inb, task) ==
  IF lead # NoAgent /\ lead # self
  THEN AppendMessage(inb, lead, self, CreateTaskCompleted(self, task.id, task.subject))
  ELSE inb

\* the guards of the two lifecycle callbacks in _handle_TaskUpdate
FiresAssignedAlways(owner, deleted) == TRUE
FiresAssigned(owner, deleted) == Truthy(owner) /\ ~deleted
FiresCompleted(new_status, deleted) == new_status = "completed" /\ ~deleted

\* _handle_TaskCreate through the task store's create_task, which takes the
\* metadata of the call; args["subject"] raises KeyError without the key and
\* execute turns the exception into an error result.
HandleTaskCreate(self, inb, ts, h, args) ==
  IF args.subject = Absent THEN Raised(inb, ts, h)
  ELSE LET task == [NewTask(NextId(h), args.subject, NoAgent) EXCEPT !.metadata = args.metadata]
       IN [Effect(inb, WriteTask(ts, task), NextId(h))
             EXCEPT !.changed = 1, !.result = "task", !.task = task]

\* _handle_TaskUpdate; args.pop("taskId") raises KeyError without the key and
\* execute turns the exception into an error result.
HandleTaskUpdate(self, lead, inb, ts, h, args) ==
  IF args.taskId = NoKey THEN Raised(inb, ts, h)
  ELSE IF args.taskId \notin DOMAIN ts THEN Effect(inb, ts, h)
  ELSE LET task == UpdateFields(ts[args.taskId], [status |-> args.status, owner |-> args.owner,
                                                  metadata |-> args.metadata])
           deleted == IsPurged(task)
           fa == FiresAssigned(args.owner, deleted)
           fc == FiresCompleted(args.status, deleted)
           inb1 == IF fa THEN OnTaskAssigned(self, inb, task.owner, task) ELSE inb
           inb2 == IF fc THEN OnTaskCompleted(self, lead, inb1, task) ELSE inb1
       IN [inbox |-> inb2,
           tasks |-> IF deleted THEN RemoveTask(ts, task.id) ELSE WriteTask(ts, task),
           hwm |-> h, existed |-> TRUE, prev |-> ts[args.taskId],
           changed |-> IF deleted THEN 0 ELSE 1,
           assigned |-> IF fa THEN 1 ELSE 0,
           completed |-> IF fc THEN 1 ELSE 0,
           deleted |-> deleted, result |-> "task", task |-> task, listed |-> <<>>,
           sent |-> 0]

\* The empty string as a content, and the reason a shutdown_request built by
\* SendMessage carries: the content, or "requested by agent" without one.
EmptyText == [PlainText EXCEPT !.body = ""]
ReasonOf(content) == IF content = EmptyText THEN "requested by agent" ELSE "content"

\* the broadcast loop of _handle_SendMessage over team_agents
RECURSIVE Broadcast(_, _, _, _)
Broadcast(inb, self, team, content) ==
  IF team = <<>> THEN inb
  ELSE Broadcast(IF Head(team) # self THEN AppendMessage(inb, Head(team), self, content) ELSE inb,
                 self, Tail(team), content)

\* _handle_SendMessage: dispatch on type, default "message"
HandleSendMessage(self, team, inb, ts, h, args) ==
  LET sent(text) == [Effect(AppendMessage(inb, args.recipient, self, text), ts, h)
                       EXCEPT !.result = "sent", !.sent = 1]
      failed == Effect(inb, ts, h)
  IN CASE args.type = "shutdown_request" ->
            IF ~Truthy(args.recipient) THEN failed
            ELSE sent(CreateShutdownRequest(self, ReasonOf(args.content), args.recipient))
       [] args.type = "shutdown_response" ->
            IF ~Truthy(args.recipient) THEN failed
            ELSE sent(CreateShutdownApproved(self, ""))
       [] args.type = "plan_approval_request" ->
            IF ~Truthy(args.recipient) \/ ~Truthy(args.request_id) THEN failed
            ELSE sent(CreatePlanApprovalRequest(self, args.request_id, "content"))
       [] args.type = "plan_approval_response" ->
            IF ~Truthy(args.recipient) \/ ~Truthy(args.request_id) THEN failed
            ELSE sent(CreatePlanApprovalResponse(self, args.request_id,
                        IF args.approve = Absent THEN "false" ELSE args.approve, "content"))
       [] args.type = "broadcast" ->
            [Effect(Broadcast(inb, self, team, args.content), ts, h)
               EXCEPT !.result = "sent",
                      !.sent = Cardinality({i \in DOMAIN team : team[i] # self})]
       [] OTHER ->
            IF ~Truthy(args.recipient) THEN failed ELSE sent(args.content)

\* list_tasks: the records of the files *.json of the task directory in the
\* order of sorted() on their paths, which compares the file names as strings.
\* CharCodes: the code points of the characters of "<id>.json" that matter.
Digits(n) == IF n < 10 THEN <<n>> ELSE <<n \div 10, n % 10>>
CharCodes(id) == [i \in 1..Len(Digits(id)) |-> 48 + Digits(id)[i]] \o <<46>>
RECURSIVE SeqLess(_, _)
SeqLess(a, b) ==
  IF a = <<>> THEN b # <<>>
  ELSE IF b = <<>> THEN FALSE
  ELSE IF Head(a) # Head(b) THEN Head(a) < Head(b)
  ELSE SeqLess(Tail(a), Tail(b))
PathLess(a, b) == SeqLess(CharCodes(a), CharCodes(b))
RECURSIVE SortedPaths(_)
SortedPaths(ids) ==
  IF ids = {} THEN <<>>
  ELSE LET first == CHOOSE a \in ids : \A b \in ids \ {a} : PathLess(a, b)
       IN <<first>> \o SortedPaths(ids \ {first})
ListTasks(ts) == [i \in 1..Cardinality(DOMAIN ts) |-> ts[SortedPaths(DOMAIN ts)[i]]]

\* _handle_TaskList and _handle_TaskGet change nothing
HandleTaskList(inb, ts, h) ==
  [Effect(inb, ts, h) EXCEPT !.result = "read", !.listed = ListTasks(ts)]
HandleTaskGet(inb, ts, h, args) ==
  IF args.taskId = NoKey THEN Raised(inb, ts, h)
  ELSE IF args.taskId \notin DOMAIN ts THEN Effect(inb, ts, h)
  ELSE [Effect(inb, ts, h) EXCEPT !.result = "read", !.existed = TRUE, !.task = ts[args.taskId]]

\* ToolExecutor.execute: the handler named by the call; an unknown tool gives
\* an error result.
Execute(self, runner, inb, ts, h, args) ==
  CASE args.name = "SendMessage" -> HandleSendMessage(self, runner.team_agents, inb, ts, h, args)
    [] args.name = "TaskCreate" -> HandleTaskCreate(self, inb, ts, h, args)
    [] args.name = "TaskUpdate" -> HandleTaskUpdate(self, runner.lead_agent, inb, ts, h, args)
    [] args.name = "TaskList" -> HandleTaskList(inb, ts, h)
    [] args.name = "TaskGet" -> HandleTaskGet(inb, ts, h, args)
    [] OTHER -> Effect(inb, ts, h)

\* ---------------------------------------------------------------- SpecInbox
\* An inbox left by earlier operations: empty, one unread or one read message.
InitUid(a) == IF a = "a" THEN 100 ELSE 200
InitContents(a) ==
  { <<>>, <<Message("user", PlainText, InitUid(a))>>,
    <<[Message("user", PlainText, InitUid(a)) EXCEPT !.read = TRUE]>> }

InitInbox ==
  /\ inbox \in [StoreAgents -> UNION {InitContents(a) : a \in StoreAgents}]
  /\ \A a \in StoreAgents : inbox[a] \in InitContents(a)
  /\ ilock = [a \in StoreAgents |-> NoProc]
  /\ ProcsIdle
  /\ TaskStoreNew
  /\ appended = [a \in StoreAgents |-> Uids(inbox[a])]
  /\ delivered = [u \in {} |-> 0]
  /\ clean = [a \in StoreAgents |-> FALSE]
  /\ issued = <<>>
  /\ NoEngine

Begin(p, o) ==
  /\ pc[p] = "idle" /\ ncalls < MaxCalls
  /\ op' = [op EXCEPT ![p] = o]
  /\ pc' = [pc EXCEPT ![p] = "acq"]
  /\ ret' = [ret EXCEPT ![p] = NoRet]
  /\ ncalls' = ncalls + 1
  /\ UNCHANGED <<engVars, sessVars>>

\* A caller starts an operation; append_message builds its message dict
\* before it asks for the lock.
CallAppend(p, a, from) ==
  /\ Begin(p, [NoOp EXCEPT !.name = "append_message", !.agent = a,
                           !.msg = Message(from, PlainText, nextUid)])
  /\ nextUid' = nextUid + 1
  /\ UNCHANGED <<storeVars, ilock, tlock, loc, histVars>>

CallRead(p, a, name) ==
  /\ Begin(p, [NoOp EXCEPT !.name = name, !.agent = a])
  /\ UNCHANGED <<storeVars, ilock, tlock, loc, nextUid, histVars>>

CallMarkRead(p, a, all, indices) ==
  /\ Begin(p, [NoOp EXCEPT !.name = "mark_read", !.agent = a,
                           !.all = all, !.indices = indices])
  /\ UNCHANGED <<storeVars, ilock, tlock, loc, nextUid, histVars>>

\* Enter the `async with` block and run _read_raw.
Acquire(p) ==
  /\ pc[p] = "acq"
  /\ CanAcquire(ilock, op[p].agent)
  /\ ilock' = [ilock EXCEPT ![op[p].agent] = p]
  /\ loc' = [loc EXCEPT ![p] = inbox[op[p].agent]]
  /\ pc' = [pc EXCEPT ![p] = "locked"]
  /\ UNCHANGED <<storeVars, tlock, op, ret, nextUid, ncalls, histVars, engVars, sessVars>>

\* Leave the `async with` block and return; the locals of the call die.
Release(p, r) ==
  /\ ilock' = [ilock EXCEPT ![op[p].agent] = IF @ = p THEN NoProc ELSE @]
  /\ pc' = [pc EXCEPT ![p] = "idle"]
  /\ ret' = [ret EXCEPT ![p] = r]
  /\ op' = [op EXCEPT ![p] = NoOp]
  /\ loc' = [loc EXCEPT ![p] = <<>>]
  /\ UNCHANGED <<tasks, hwm, tlock, nextUid, ncalls, issued, engVars, sessVars>>

CommitAppend(p) ==
  /\ pc[p] = "locked" /\ op[p].name = "append_message"
  /\ inbox' = [inbox EXCEPT ![op[p].agent] = Append(loc[p], op[p].msg)]
  /\ appended' = [appended EXCEPT ![op[p].agent] = Append(@, op[p].msg.uid)]
  /\ clean' = [clean EXCEPT ![op[p].agent] = FALSE]
  /\ Release(p, [NoRet EXCEPT !.name = "append_message", !.agent = op[p].agent,
                              !.val = <<op[p].msg>>])
  /\ UNCHANGED delivered

CommitReadAll(p) ==
  /\ pc[p] = "locked" /\ op[p].name = "read_all"
  /\ Release(p, [NoRet EXCEPT !.name = "read_all", !.agent = op[p].agent, !.val = loc[p]])
  /\ UNCHANGED <<inbox, appended, delivered, clean>>

CommitReadUnread(p) ==
  /\ pc[p] = "locked" /\ op[p].name = "read_unread"
  /\ inbox' = [inbox EXCEPT ![op[p].agent] = ReadUnreadFile(loc[p])]
  /\ delivered' =
       LET unread == SelectUnread(loc[p])
           us == {unread[i].uid : i \in DOMAIN unread}
       IN [u \in DOMAIN delivered \cup us |->
             IF u \in us
             THEN (IF u \in DOMAIN delivered THEN delivered[u] ELSE 0) + 1
             ELSE delivered[u]]
  /\ clean' = [clean EXCEPT ![op[p].agent] = TRUE]
  /\ Release(p, [NoRet EXCEPT !.name = "read_unread", !.agent = op[p].agent,
                              !.val = SelectUnread(loc[p]),
                              !.flag = clean[op[p].agent]])
  /\ UNCHANGED appended

CommitMarkRead(p) ==
  /\ pc[p] = "locked" /\ op[p].name = "mark_read"
  /\ inbox' = [inbox EXCEPT ![op[p].agent] = MarkIndices(loc[p], op[p].all, op[p].indices)]
  /\ Release(p, [NoRet EXCEPT !.name = "mark_read", !.agent = op[p].agent])
  /\ UNCHANGED <<appended, delivered, clean>>

NextInbox ==
  \/ \E p \in Procs, a \in StoreAgents : CallAppend(p, a, "user")
  \/ \E p \in Procs, a \in StoreAgents, n \in {"read_all", "read_unread"} : CallRead(p, a, n)
  \/ \E p \in Procs, a \in StoreAgents, ix \in {{}, {1}} : CallMarkRead(p, a, ix = {}, ix)
  \/ \E p \in Procs : Acquire(p)
  \/ \E p \in Procs : CommitAppend(p)
  \/ \E p \in Procs : CommitReadAll(p)
  \/ \E p \in Procs : CommitReadUnread(p)
  \/ \E p \in Procs : CommitMarkRead(p)

SpecInbox == InitInbox /\ [][NextInbox]_vars

\* C1: a read_unread that follows a completed read_unread on the same agent
\* with no append in between returns the empty list, and then every message
\* of that inbox has read = true.
ReadUnreadIdempotent ==
  /\ \A p \in Procs : (ret[p].name = "read_unread" /\ ret[p].flag) => ret[p].val = <<>>
  /\ \A a \in DOMAIN clean : clean[a] => AllRead(inbox[a])

\* a second read_unread returned after a first one had returned a message
SecondReadUnreadDone ==
  \E p \in Procs : /\ ret[p].name = "read_unread" /\ ret[p].flag
                   /\ DOMAIN delivered # {}
                   /\ Len(inbox[ret[p].agent]) > 0

\* C3: the operations on one inbox are atomic under every interleaving: the
\* file holds exactly the appended messages in append order, nobody changes
\* it between a caller's read and its write, no message is returned by two
\* read_unread calls, and a read_unread returns messages in append order.
PositionsIncrease(us, order) ==
  \A i, j \in DOMAIN us : i < j =>
    \E k, l \in DOMAIN order : k < l /\ order[k] = us[i] /\ order[l] = us[j]
InboxOpsAtomic ==
  /\ \A a \in DOMAIN appended : Uids(inbox[a]) = appended[a]
  /\ \A p \in Procs : (pc[p] = "locked" /\ op[p].agent \in DOMAIN inbox)
                         => loc[p] = inbox[op[p].agent]
  /\ \A u \in DOMAIN delivered : delivered[u] <= 1
  /\ \A p \in Procs : ret[p].name = "read_unread"
                         => PositionsIncrease(Uids(ret[p].val), appended[ret[p].agent])

\* two callers contend for one inbox after a message was delivered: one is
\* inside an append, the other waits to read
InboxContention ==
  \E p, q \in Procs :
    /\ p # q /\ pc[p] = "locked" /\ pc[q] = "acq"
    /\ op[p].agent = op[q].agent
    /\ op[p].name = "append_message" /\ op[q].name = "read_unread"
    /\ DOMAIN delivered # {}

\* ---------------------------------------------------------------- SpecTasks
InitTasks ==
  /\ inbox = [a \in StoreAgents |-> <<>>]
  /\ ilock = [a \in StoreAgents |-> NoProc]
  /\ ProcsIdle
  /\ TaskStoreNew
  /\ appended = [a \in StoreAgents |-> <<>>]
  /\ delivered = [u \in {} |-> 0]
  /\ clean = [a \in StoreAgents |-> FALSE]
  /\ issued = <<>>
  /\ NoEngine

TaskIdsAsked == 1..2
UpdatesAsked ==
  { [NoUpdate EXCEPT !.status = "completed"], [NoUpdate EXCEPT !.status = "deleted"],
    [NoUpdate EXCEPT !.owner = "a"] }

CallTaskOp(p, name, id, upd) ==
  /\ Begin(p, [NoOp EXCEPT !.name = name, !.taskId = id, !.upd = upd])
  /\ UNCHANGED <<storeVars, ilock, tlock, loc, nextUid, histVars>>

\* Enter `async with self._lock`; create_task then reads .highwatermark, the
\* other operations read the task file.
TaskAcquire(p) ==
  /\ pc[p] = "acq"
  /\ TaskLockFree(tlock)
  /\ tlock' = p
  /\ loc' = [loc EXCEPT ![p] =
       IF op[p].name = "create_task" THEN hwm
       ELSE IF op[p].taskId \in DOMAIN tasks THEN tasks[op[p].taskId] ELSE NoTask]
  /\ pc' = [pc EXCEPT ![p] = "locked"]
  /\ UNCHANGED <<storeVars, ilock, op, ret, nextUid, ncalls, histVars, engVars, sessVars>>

TaskRelease(p, r) ==
  /\ tlock' = IF tlock = p THEN NoProc ELSE tlock
  /\ pc' = [pc EXCEPT ![p] = "idle"]
  /\ ret' = [ret EXCEPT ![p] = r]
  /\ op' = [op EXCEPT ![p] = NoOp]
  /\ loc' = [loc EXCEPT ![p] = <<>>]
  /\ UNCHANGED <<inbox, ilock, nextUid, ncalls, appended, delivered, clean, engVars, sessVars>>

CommitCreate(p) ==
  /\ pc[p] = "locked" /\ op[p].name = "create_task"
  /\ LET id == NextId(loc[p]) IN
       /\ hwm' = id
       /\ tasks' = WriteTask(tasks, NewTask(id, "s", NoAgent))
       /\ issued' = Append(issued, id)
       /\ TaskRelease(p, [NoRet EXCEPT !.name = "create_task", !.val = id,
                            !.flag = \E i \in DOMAIN issued : issued[i] \notin DOMAIN tasks])

CommitUpdate(p) ==
  /\ pc[p] = "locked" /\ op[p].name = "update_task"
  /\ IF loc[p] = NoTask
     THEN /\ UNCHANGED tasks
          /\ TaskRelease(p, [NoRet EXCEPT !.name = "update_task", !.val = NoTask])
     ELSE LET task == UpdateFields(loc[p], op[p].upd) IN
          /\ tasks' = IF IsPurged(task) THEN RemoveTask(tasks, task.id)
                      ELSE WriteTask(tasks, task)
          /\ TaskRelease(p, [NoRet EXCEPT !.name = "update_task", !.val = task])
  /\ UNCHANGED <<hwm, issued>>

CommitDelete(p) ==
  /\ pc[p] = "locked" /\ op[p].name = "delete_task"
  /\ tasks' = RemoveTask(tasks, op[p].taskId)
  /\ TaskRelease(p, [NoRet EXCEPT !.name = "delete_task", !.flag = loc[p] # NoTask])
  /\ UNCHANGED <<hwm, issued>>

NextTasks ==
  \/ \E p \in Procs : CallTaskOp(p, "create_task", 0, NoUpdate)
  \/ \E p \in Procs, id \in TaskIdsAsked, u \in UpdatesAsked : CallTaskOp(p, "update_task", id, u)
  \/ \E p \in Procs, id \in TaskIdsAsked : CallTaskOp(p, "delete_task", id, NoUpdate)
  \/ \E p \in Procs : TaskAcquire(p)
  \/ \E p \in Procs : CommitCreate(p)
  \/ \E p \in Procs : CommitUpdate(p)
  \/ \E p \in Procs : CommitDelete(p)

SpecTasks == InitTasks /\ [][NextTasks]_vars

\* C2: the ids create_task returns are 1, 2, 3, ... in allocation order, so
\* none is issued twice, also after a task was deleted; every stored task
\* carries an id that was issued.
TaskIdsMonotonic ==
  /\ \A i \in DOMAIN issued : issued[i] = i
  /\ \A id \in DOMAIN tasks : \E i \in DOMAIN issued : issued[i] = id

\* a create_task returned an id while an earlier id had no task any more
CreatedAfterDelete ==
  \E p \in Procs : ret[p].name = "create_task" /\ ret[p].flag /\ ret[p].val = 2

\* ---------------------------------------------------------------- SpecBuild
\* The stores as a new session has them: no inbox file, no task, no caller.
NoCallers ==
  /\ ilock = [a \in StoreAgents |-> NoProc]
  /\ ProcsIdle
  /\ appended = [a \in StoreAgents |-> <<>>]
  /\ delivered = [u \in {} |-> 0]
  /\ clean = [a \in StoreAgents |-> FALSE]
  /\ issued = <<>>
NoFiles == [a \in {} |-> <<>>]

MaxConns == 2          \* connections listed by one agent
AgentPool == <<"lead", "w1", "w2">>
Roles == {"leader", "teammate"}
ConnNames == {AgentPool[i] : i \in DOMAIN AgentPool}
ConnLists == UNION {[1..k -> ConnNames] : k \in 0..MaxConns}
\* SessionRequest.agents: at least one agent; the names here are distinct.
Roster(n, r, c) == [i \in 1..n |-> Config(AgentPool[i], r[i], c[i])]

InitBuild ==
  /\ \E n \in DOMAIN AgentPool :
       \E r \in [1..n -> Roles], c \in [1..n -> ConnLists] : configs = Roster(n, r, c)
  /\ runners = [n \in {} |-> 0]
  /\ call = NoCall
  /\ NoSession
  /\ NoPure
  /\ inbox = NoFiles
  /\ TaskStoreNew
  /\ NoCallers

\* _build_runners, which start() calls first: one runner per config.
Construct ==
  /\ DOMAIN runners = {}
  /\ runners' = BuildRunners(configs)
  /\ UNCHANGED <<configs, call, pureVars, storeVars, procVars, histVars, sessVars>>

NextBuild == Construct
SpecBuild == InitBuild /\ [][NextBuild]_vars

MaxTasks == 1          \* tasks created in one behaviour
MaxExec == 3           \* tool calls executed in one behaviour

\* A leader and one teammate that lists it.
ToolRoster == <<Config("lead", "leader", <<>>), Config("w1", "teammate", <<"lead">>)>>

InitTool ==
  /\ configs = ToolRoster
  /\ runners = BuildRunners(ToolRoster)
  /\ call = NoCall
  /\ NoSession
  /\ NoPure
  /\ inbox = NoFiles
  /\ TaskStoreNew
  /\ NoCallers

\* the arguments a model may pass to TaskUpdate
TaskIdArgs == {NoKey} \cup (1..(MaxTasks + 1))
OwnerArgs == {Absent, NoAgent, "", "w1", "lead"}
StatusArgs == {Absent, "in_progress", "completed", "deleted"}

\* ToolExecutor.execute: the stores and the record of the call afterwards
Executed(a, args, e) ==
  /\ ncalls < MaxExec
  /\ ncalls' = ncalls + 1
  /\ inbox' = e.inbox
  /\ tasks' = e.tasks
  /\ hwm' = e.hwm
  /\ call' = [agent |-> a, args |-> args, existed |-> e.existed, prev |-> e.prev,
              changed |-> e.changed, assigned |-> e.assigned, completed |-> e.completed,
              deleted |-> e.deleted, result |-> Returned(e.result), task |-> e.task,
              listed |-> e.listed, sent |-> e.sent]
  /\ UNCHANGED <<ilock, tlock, pc, op, loc, ret, nextUid, histVars, configs, runners, pureVars,
                 sessVars>>

ExecTaskCreate(a, subject) ==
  /\ hwm < MaxTasks
  /\ LET args == [NoArgs EXCEPT !.name = "TaskCreate", !.subject = subject]
     IN Executed(a, args, HandleTaskCreate(a, inbox, tasks, hwm, args))

ExecTaskUpdate(a, id, owner, status) ==
  LET args == [NoArgs EXCEPT !.name = "TaskUpdate", !.taskId = id, !.owner = owner,
                             !.status = status]
  IN Executed(a, args, HandleTaskUpdate(a, runners[a].lead_agent, inbox, tasks, hwm, args))

NextTool ==
  \/ \E a \in DOMAIN runners, subject \in {Absent, "s"} : ExecTaskCreate(a, subject)
  \/ \E a \in DOMAIN runners, id \in TaskIdArgs, o \in OwnerArgs, st \in StatusArgs :
       ExecTaskUpdate(a, id, o, st)
SpecTool == InitTool /\ [][NextTool]_vars

\* the envelopes of one type that one agent's inbox holds from one sender
Envelopes(inb, agent, type, from) ==
  {i \in DOMAIN ReadRaw(inb, agent) :
     /\ ParseProtocolMessage(inb[agent][i].text).type = type
     /\ inb[agent][i].from = from}

CompletedOncePerTransition ==
  call.args.name = "TaskUpdate" =>
    call.completed =
      IF call.existed /\ call.args.status = "completed" /\ call.prev.status # "completed"
      THEN 1 ELSE 0

\* ---------------------------------------------------------------- Spec: one session
IDLE_TIMEOUT == 300
LEADER_NUDGE_INTERVAL == 60
MAX_TOOL_LOOPS == 10

MaxInputs == 2         \* user messages, store-changing tool calls, stop() calls and
                       \* leader nudges in one behaviour, taken together
Drawn == used.user + used.effects + used.stops + used.nudges

Init ==
  /\ configs = ToolRoster
  /\ runners = [n \in {} |-> 0]
  /\ call = NoCall
  /\ NoSession
  /\ NoPure
  /\ inbox = NoFiles
  /\ TaskStoreNew
  /\ NoCallers

HasUnread(inb, a) == SelectUnread(ReadRaw(inb, a)) # <<>>
\* agents_with_unread of one scheduler iteration
AgentsWithUnread(inb) == {a \in NameSet(configs) : HasUnread(inb, a)}

\* _has_incomplete_tasks
HasIncompleteTasks(ts) == \E id \in DOMAIN ts : ts[id].status \notin {"completed", "deleted"}

\* _nudge_leaders: one status-check message from "system" to every leader that
\* has a report owning an incomplete task, or, for the top leader, that sees an
\* incomplete task without owner.
NudgeText == [PlainText EXCEPT !.body = "status check"]
Reports(cfgs, leader) == {cfgs[i].name : i \in {j \in DOMAIN cfgs : AgentLead(cfgs, cfgs[j]) = leader}}
Nudged(ts, cfgs) ==
  {leader \in {AgentLead(cfgs, cfgs[i]) : i \in DOMAIN cfgs} \ {NoAgent} :
     \E id \in DOMAIN ts :
       /\ ts[id].status \notin {"completed", "deleted"}
       /\ \/ ts[id].owner \in Reports(cfgs, leader)
          \/ ~Truthy(ts[id].owner) /\ leader = TopLeader(cfgs)}
NudgeLeaders(inb, ts, cfgs) ==
  [x \in DOMAIN inb \cup Nudged(ts, cfgs) |->
     IF x \in Nudged(ts, cfgs) THEN Append(ReadRaw(inb, x), Message("system", NudgeText, 0))
     ELSE inb[x]]

\* start(): build the runners, set running, emit session_start, create the
\* scheduler task, which has not run yet when start() returns.
Start ==
  /\ spc = "none"
  /\ stopPc = "none"
  /\ runners' = BuildRunners(configs)
  /\ running' = TRUE
  /\ ev' = [ev EXCEPT !.session_start = @ + 1]
  /\ spc' = "created"
  /\ tpc' = [a \in NameSet(configs) |-> "none"]
  /\ turn' = [a \in NameSet(configs) |-> NoTurn]
  /\ UNCHANGED <<configs, call, pureVars, storeVars, procVars, histVars, sloc, stopPc, used>>

\* the finally block of _orchestration_loop, after an error event if the loop
\* body raised
Finish(err) ==
  /\ spc' = "done"
  /\ ev' = [ev EXCEPT !.session_end = @ + 1, !.error = IF err THEN @ + 1 ELSE @]
  /\ sloc' = [NoLocals EXCEPT !.exit = IF err THEN "error" ELSE "stopped"]
  /\ UNCHANGED tpc

\* `if idle_seconds >= IDLE_TIMEOUT: break`, then the finally block
TimedOutEarly(idle) == idle >= LEADER_NUDGE_INTERVAL
TimedOut(idle) == idle >= IDLE_TIMEOUT
FinishIdle(idle, q) ==
  /\ spc' = "done"
  /\ ev' = [ev EXCEPT !.session_end = @ + 1]
  /\ sloc' = [NoLocals EXCEPT !.idle_seconds = idle, !.quiet = q, !.exit = "timeout"]
  /\ UNCHANGED tpc

\* From `while self._running` to the next suspension: leave the loop, or sleep
\* one second when no agent has unread messages, or start one _run_agent task
\* per agent with unread messages and wait in gather.
LoopTop(inb, idle, nudge_at, q) ==
  IF ~running THEN Finish(FALSE)
  ELSE IF AgentsWithUnread(inb) = {}
  THEN /\ spc' = "sleep1"
       /\ sloc' = [NoLocals EXCEPT !.idle_seconds = idle, !.last_nudge_at = nudge_at,
                                   !.quiet = q + 1]
       /\ UNCHANGED <<ev, tpc>>
  ELSE /\ spc' = "gather"
       /\ sloc' = [NoLocals EXCEPT !.last_nudge_at = nudge_at]
       /\ tpc' = [a \in DOMAIN tpc |-> IF a \in AgentsWithUnread(inb) THEN "ready" ELSE "none"]
       /\ UNCHANGED ev

\* the first step of the scheduler task; err: a store read raises
SchedEnter(err) ==
  /\ spc = "created"
  /\ IF err THEN Finish(TRUE) ELSE LoopTop(inbox, 0, 0, 0)
  /\ UNCHANGED <<engVars, storeVars, procVars, histVars, running, turn, stopPc, used>>

\* An iteration that finds no unread message, is not due for a nudge and is
\* short of the timeout only adds one to idle_seconds and sleeps again.
\* NextEvent is the value of idle_seconds in the first later iteration that
\* does more: the nudge test passes (tasks cannot change while no agent
\* runs) or the idle timeout is reached.
NextEvent(idle, nudge_at, ts) ==
  LET due == IF nudge_at + LEADER_NUDGE_INTERVAL > LEADER_NUDGE_INTERVAL
             THEN nudge_at + LEADER_NUDGE_INTERVAL ELSE LEADER_NUDGE_INTERVAL
  IN IF HasIncompleteTasks(ts) /\ due < IDLE_TIMEOUT /\ due > idle THEN due
     ELSE IF IDLE_TIMEOUT > idle THEN IDLE_TIMEOUT ELSE idle + 1
\* The values idle_seconds may have when the scheduler looks again: while the
\* inboxes stay read the run of sleep-only iterations is taken in one step;
\* a message that arrived is found one second later, or in the iteration of
\* the next event.
WakeAt(inb, idle, nudge_at, ts) ==
  IF AgentsWithUnread(inb) = {} THEN {NextEvent(idle, nudge_at, ts)}
  ELSE {idle + 1, NextEvent(idle, nudge_at, ts)}

\* the test before _nudge_leaders
NudgeDueEarly(idle, nudge_at, ts) ==
  idle >= LEADER_NUDGE_INTERVAL /\ HasIncompleteTasks(ts)
NudgeDue(idle, nudge_at, ts) ==
  /\ idle >= LEADER_NUDGE_INTERVAL
  /\ idle - nudge_at >= LEADER_NUDGE_INTERVAL
  /\ HasIncompleteTasks(ts)

\* asyncio.sleep(1.0) returned: count the idle second, nudge the leaders when
\* due, stop at the idle timeout, else go round the loop.  wakes: the values
\* idle_seconds may have after the increment; the iterations between the
\* current one and the one that reaches a later value found no unread message.
SleepOne(err, wakes) ==
  /\ spc = "sleep1"
  /\ \E idle \in wakes :
       LET q == sloc.quiet + (idle - sloc.idle_seconds - 1)
           due == NudgeDue(idle, sloc.last_nudge_at, tasks)
           sent == due /\ Nudged(tasks, configs) # {}
           inb == IF due THEN NudgeLeaders(inbox, tasks, configs) ELSE inbox
       IN /\ sent => Drawn < MaxInputs
          /\ IF err THEN Finish(TRUE) /\ UNCHANGED <<inbox, used>>
             ELSE /\ inbox' = inb
                  /\ used' = [used EXCEPT !.nudges = IF sent THEN @ + 1 ELSE @]
                  /\ IF TimedOut(idle) THEN FinishIdle(idle, q)
                     ELSE LoopTop(inb, idle, IF due THEN idle ELSE sloc.last_nudge_at, q)
  /\ UNCHANGED <<engVars, tasks, hwm, procVars, histVars, running, turn, stopPc>>
\* with the sleep-only iterations taken in one step
SchedAfterSleep1(err) ==
  SleepOne(err, WakeAt(inbox, sloc.idle_seconds, sloc.last_nudge_at, tasks))
\* one iteration at a time
SchedTick == SleepOne(FALSE, {sloc.idle_seconds + 1})

\* asyncio.gather over the _run_agent tasks of the round returns when every
\* one of them has finished
GatherReturnedAny(t) == \E a \in DOMAIN t : t[a] = "done"
GatherReturned(t) == \A a \in DOMAIN t : t[a] \in {"none", "done"}

\* gather returned: the finished _run_agent tasks of the round are dropped;
\* the history of their turns is kept until the pause has passed
SchedAfterGather ==
  /\ spc = "gather"
  /\ GatherReturned(tpc)
  /\ spc' = "sleep05"
  /\ tpc' = [a \in DOMAIN tpc |-> IF tpc[a] = "done" THEN "none" ELSE tpc[a]]
  /\ UNCHANGED <<engVars, storeVars, procVars, histVars, running, sloc, turn, stopPc, ev, used>>

\* asyncio.sleep(0.5) returned
SchedAfterSleep05(err) ==
  /\ spc = "sleep05"
  /\ IF err THEN Finish(TRUE)
     ELSE LoopTop(inbox, sloc.idle_seconds, sloc.last_nudge_at, sloc.quiet)
  /\ turn' = [a \in DOMAIN turn |->
               IF ~err /\ running /\ HasUnread(inbox, a)
               THEN [NoTurn EXCEPT !.before = turn[a].how] ELSE NoTurn]
  /\ UNCHANGED <<engVars, storeVars, procVars, histVars, running, stopPc, used>>

\* The cancelled scheduler task takes its step.  A task that had started
\* catches CancelledError and runs the finally block; a task cancelled before
\* its first step never runs any of the coroutine's code.
SchedCancelled ==
  /\ spc \in {"cancelled_new", "cancelled_run"}
  /\ spc' = "done"
  /\ ev' = [ev EXCEPT !.session_end = IF spc = "cancelled_run" THEN @ + 1 ELSE @]
  /\ sloc' = [NoLocals EXCEPT !.exit = "cancelled"]
  /\ UNCHANGED <<engVars, storeVars, procVars, histVars, running, tpc, turn, stopPc, used>>

\* ---------------------------------------------------------------- turns
\* all envelopes of one type and one sender in all inboxes
EnvelopesAll(inb, type, from) ==
  {p \in UNION {{<<x, i>> : i \in DOMAIN inb[x]} : x \in DOMAIN inb} :
     /\ ParseProtocolMessage(inb[p[1]][p[2]].text).type = type
     /\ inb[p[1]][p[2]].from = from}
CountTo(inb, agent, type, from) == Cardinality(Envelopes(inb, agent, type, from))
CountAll(inb, type, from) == Cardinality(EnvelopesAll(inb, type, from))

\* the test of _check_shutdown_request on one message of the raw inbox
IsShutdownRequestNever(m) == FALSE
IsShutdownRequest(m) ==
  ~m.read /\ ParseProtocolMessage(m.text) # NoParse
          /\ ParseProtocolMessage(m.text).type = "shutdown_request"

\* _check_shutdown_request: on the first unread shutdown_request, approve to
\* the parent (if any) with the request's requestId, then mark all read.
CheckShutdownRequest(a, lead, inb) ==
  LET msgs == ReadRaw(inb, a)
      hits == {i \in DOMAIN msgs : IsShutdownRequest(msgs[i])}
  IN IF hits = {} THEN [found |-> FALSE, inbox |-> inb]
     ELSE LET parsed == ParseProtocolMessage(msgs[CHOOSE i \in hits : \A j \in hits : i <= j].text)
              req_id == IF parsed.requestId = Absent THEN "" ELSE parsed.requestId
              inb1 == IF Truthy(lead)
                      THEN AppendMessage(inb, lead, a, CreateShutdownApproved(a, req_id))
                      ELSE inb
          IN [found |-> TRUE, inbox |-> ReadUnread(inb1, a)]

\* the unread messages of an inbox whose text is a shutdown_request envelope
UnreadRequests(inb, a) ==
  {i \in DOMAIN ReadRaw(inb, a) :
     /\ ~inb[a][i].read
     /\ inb[a][i].text.k = "json"
     /\ inb[a][i].text.type = "shutdown_request"}

\* The first step of a _run_agent task, up to the first provider.chat:
\* the shutdown short-circuit, or turn_start, build_messages (which consumes
\* the unread messages) and the first call of the provider.
TurnStart(a) ==
  /\ tpc[a] = "ready"
  /\ LET lead == runners[a].lead_agent
         chk == CheckShutdownRequest(a, lead, inbox)
         reqs == UnreadRequests(inbox, a)
         first == CHOOSE i \in reqs : \A j \in reqs : i <= j
         seen == [NoTurn EXCEPT
                    !.sawRequest = reqs # {},
                    !.requestId = IF reqs # {} THEN inbox[a][first].text.requestId ELSE Absent]
     IN IF chk.found
        THEN /\ inbox' = chk.inbox
             /\ tpc' = [tpc EXCEPT ![a] = "done"]
             /\ turn' = [turn EXCEPT ![a] =
                  [seen EXCEPT
                     !.kind = "shutdown", !.turn_end = "shutdown",
                     !.trace = IF Truthy(lead) THEN <<"protocol_message", "turn_end">>
                               ELSE <<"turn_end">>,
                     !.apprAdded = CountAll(chk.inbox, "shutdown_approved", a)
                                     - CountAll(inbox, "shutdown_approved", a),
                     !.apprToLead = CountTo(chk.inbox, lead, "shutdown_approved", a)
                                     - CountTo(inbox, lead, "shutdown_approved", a),
                     !.echoed = IF Truthy(lead)
                                THEN chk.inbox[lead][Len(chk.inbox[lead])].text.requestId
                                ELSE Absent,
                     !.unreadAfter = HasUnread(chk.inbox, a)]]
        ELSE /\ inbox' = ReadUnread(inbox, a)
             /\ tpc' = [tpc EXCEPT ![a] = "chat"]
             /\ turn' = [turn EXCEPT ![a] =
                  [seen EXCEPT
                     !.kind = "running", !.loop_count = 1, !.chats = 1,
                     !.trace = <<"turn_start", "thinking">>,
                     !.requested = {i \in DOMAIN ReadRaw(inbox, a) : ~inbox[a][i].read},
                     !.idleBase = CountTo(inbox, lead, "idle_notification", a)]]
  /\ UNCHANGED <<engVars, tasks, hwm, procVars, histVars, running, spc, sloc, stopPc, ev, used>>

\* The end of run_turn after the tool loop: turn_end, then the
\* idle_notification to the parent, if there is one and it is another agent,
\* then the protocol_message event.  events: what the last pass of the loop
\* emitted; tools: the tools it executed.
IdleAppended(a, lead, inb) ==
  IF Truthy(lead) /\ lead # a THEN AppendMessage(inb, lead, a, CreateIdleNotification(a)) ELSE inb
TurnEndEvents(a, lead) ==
  <<"turn_end">> \o (IF Truthy(lead) /\ lead # a THEN <<"idle_appended">> ELSE <<>>)
                \o <<"protocol_message">>
EndTurn(a, inb, ts, h, how, events, tools) ==
  LET lead == runners[a].lead_agent
      inb1 == IdleAppended(a, lead, inb)
  IN /\ inbox' = inb1
     /\ tasks' = ts
     /\ hwm' = h
     /\ tpc' = [tpc EXCEPT ![a] = "done"]
     /\ turn' = [turn EXCEPT ![a] =
          [turn[a] EXCEPT !.kind = "normal", !.how = how, !.turn_end = "normal", !.loop_count = 0,
                    !.loops = turn[a].loop_count,
                    !.trace = @ \o events \o TurnEndEvents(a, lead),
                    !.errors = @ + (IF how = "failed" THEN 1 ELSE 0),
                    !.tools = @ + tools,
                    !.idleBase = 0,
                    !.idleAdded = CountTo(inb1, lead, "idle_notification", a) - turn[a].idleBase,
                    !.idleStep = CountAll(inb1, "idle_notification", a)
                                   - CountAll(inb, "idle_notification", a)]]

\* provider.chat raised: error event, leave the loop (`break` in the handler
\* of the exception)
ChatErrorGoesOn == FALSE
ChatErrorBreaks == TRUE
ChatFailed(a) ==
  /\ tpc[a] = "chat"
  /\ IF ChatErrorBreaks
     THEN EndTurn(a, inbox, tasks, hwm, "failed", <<"error">>, 0)
     ELSE /\ turn' = [turn EXCEPT ![a].loop_count = @ + 1, ![a].chats = @ + 1,
                                  ![a].errors = @ + 1, ![a].how = "failed",
                                  ![a].trace = @ \o <<"error", "thinking">>]
          /\ UNCHANGED <<storeVars, tpc>>
  /\ UNCHANGED <<engVars, procVars, histVars, running, spc, sloc, stopPc, ev, used>>

\* provider.chat returned a response without tool calls
ChatFinal(a) ==
  /\ tpc[a] = "chat"
  /\ EndTurn(a, inbox, tasks, hwm, "final", <<>>, 0)
  /\ UNCHANGED <<engVars, procVars, histVars, running, spc, sloc, stopPc, ev, used>>

\* `while loop_count < MAX_TOOL_LOOPS and not should_stop`
LoopGoesOnUnbounded(loop_count, should_stop) == ~should_stop
LoopGoesOn(loop_count, should_stop) == loop_count < MAX_TOOL_LOOPS /\ ~should_stop

\* provider.chat returned one tool call: execute it, then call the provider
\* again unless the call was a shutdown_request or the loop limit is reached
ChatTool(a, args) ==
  /\ tpc[a] = "chat"
  /\ LET e == Execute(a, runners[a], inbox, tasks, hwm, args)
         effect == e.inbox # inbox \/ e.tasks # tasks \/ e.hwm # hwm
         should_stop == args.name = "SendMessage" /\ args.type = "shutdown_request"
     IN /\ effect => Drawn < MaxInputs
        /\ used' = [used EXCEPT !.effects = IF effect THEN @ + 1 ELSE @]
        /\ IF LoopGoesOn(turn[a].loop_count, should_stop)
           THEN /\ inbox' = e.inbox
                /\ tasks' = e.tasks
                /\ hwm' = e.hwm
                /\ turn' = [turn EXCEPT ![a].loop_count = @ + 1, ![a].chats = @ + 1,
                                        ![a].tools = @ + 1,
                                        ![a].trace = @ \o <<"tool_call", "tool_result", "thinking">>]
                /\ UNCHANGED tpc
           ELSE EndTurn(a, e.inbox, e.tasks, e.hwm, IF should_stop THEN "stopped" ELSE "limit",
                        <<"tool_call", "tool_result">>, 1)
  /\ UNCHANGED <<engVars, procVars, histVars, running, spc, sloc, stopPc, ev>>

\* ---------------------------------------------------------------- the session's callers
\* texts a model or a user may write that parse as envelopes
ForgedIdle(a) == CreateProtocolEvent("idle_notification", a, [idleReason |-> "available"])
ForgedShutdown == CreateProtocolEvent("shutdown_request", "user", [requestId |-> "r1"])

\* the tool calls a response may carry
ToolCalls(a) ==
  LET send == [NoArgs EXCEPT !.name = "SendMessage", !.type = "message"]
      update == [NoArgs EXCEPT !.name = "TaskUpdate", !.taskId = 1]
  IN UNION {{[send EXCEPT !.recipient = r],
             [send EXCEPT !.recipient = r, !.content = ForgedIdle(a)],
             [send EXCEPT !.recipient = r, !.content = ForgedShutdown],
             [send EXCEPT !.recipient = r, !.type = "shutdown_request"]} :
            r \in NameSet(configs) \ {a}}
     \cup {[NoArgs EXCEPT !.name = "TaskCreate", !.subject = "s"],
           [update EXCEPT !.owner = "w1"], [update EXCEPT !.status = "completed"],
           [NoArgs EXCEPT !.name = "TaskList"]}

\* send_user_message: to the target, or to the first leader without one
SendUserMessage(text, target) ==
  /\ Drawn < MaxInputs
  /\ used' = [used EXCEPT !.user = @ + 1]
  /\ inbox' = AppendMessage(inbox, IF Truthy(target) THEN target ELSE TopLeader(configs),
                            "user", text)
  /\ UNCHANGED <<engVars, tasks, hwm, procVars, histVars, running, spc, sloc, tpc, turn,
                 stopPc, ev>>

\* the loop of stop() over agent_names
RECURSIVE StopInboxes(_, _)
StopInboxesButFirst(inb, names) ==
  IF names = <<>> THEN inb ELSE StopInboxes(inb, Tail(names))
StopInboxes(inb, names) ==
  IF names = <<>> THEN inb
  ELSE StopInboxes(AppendMessage(inb, Head(names), "system",
                                 CreateShutdownRequest("system", "session ending", Head(names))),
                   Tail(names))

\* the cancellation of the scheduler task in gather reaches every _run_agent
\* task that has not returned
CancelTurnNever(t) == t
CancelTurn(t) == IF t \in {"ready", "chat"} THEN "cancelled" ELSE t

\* stop() up to `await self._task`: running = False, one shutdown_request per
\* agent, one protocol_message event, and the cancellation of a scheduler task
\* that is not done, which also cancels the _run_agent tasks gather waits for.
StopCall ==
  /\ Drawn < MaxInputs
  /\ stopPc # "awaiting"
  /\ used' = [used EXCEPT !.stops = @ + 1]
  /\ running' = FALSE
  /\ inbox' = StopInboxes(inbox, AgentNames(configs))
  /\ ev' = [ev EXCEPT !.stop_protocol = @ + 1]
  /\ IF spc \in {"none", "done"}
     THEN /\ stopPc' = "returned"
          /\ UNCHANGED <<spc, tpc, turn>>
     ELSE /\ stopPc' = "awaiting"
          /\ spc' = IF spc \in {"created", "cancelled_new"} THEN "cancelled_new"
                    ELSE "cancelled_run"
          /\ tpc' = [a \in DOMAIN tpc |-> CancelTurn(tpc[a])]
          /\ turn' = [a \in DOMAIN turn |-> IF tpc[a] = "chat" THEN [NoTurn EXCEPT !.kind = "cancelled"]
                                          ELSE turn[a]]
  /\ UNCHANGED <<engVars, tasks, hwm, procVars, histVars, sloc>>

\* `await self._task` returns once the scheduler task is done
StopReturn ==
  /\ stopPc = "awaiting"
  /\ spc = "done"
  /\ stopPc' = "returned"
  /\ UNCHANGED <<engVars, storeVars, procVars, histVars, running, spc, sloc, tpc, turn, ev, used>>

Next ==
  \/ Start
  \/ \E err \in BOOLEAN : SchedEnter(err)
  \/ \E err \in BOOLEAN : SchedAfterSleep1(err)
  \/ SchedAfterGather
  \/ \E err \in BOOLEAN : SchedAfterSleep05(err)
  \/ SchedCancelled
  \/ \E a \in DOMAIN tpc : TurnStart(a)
  \/ \E a \in DOMAIN tpc : ChatFailed(a)
  \/ \E a \in DOMAIN tpc : ChatFinal(a)
  \/ \E a \in DOMAIN tpc : \E args \in ToolCalls(a) : ChatTool(a, args)
  \/ \E text \in {PlainText, ForgedShutdown}, target \in {NoAgent, "w1"} :
       SendUserMessage(text, target)
  \/ StopCall
  \/ StopReturn
Spec == Init /\ [][Next]_vars

\* C6: when a turn that was not a shutdown short-circuit has ended, the
\* parent's inbox holds exactly one more idle_notification envelope from the
\* agent than when the turn started; the turn of an agent without a parent
\* ends without appending one.
IdleOncePerTurn ==
  \A a \in DOMAIN turn :
    turn[a].kind = "normal" =>
      IF runners[a].lead_agent # NoAgent /\ runners[a].lead_agent # a
      THEN turn[a].idleAdded = 1
      ELSE turn[a].idleStep = 0

\* C7: a turn that starts with an unread shutdown_request in the agent's
\* inbox never calls the provider, ends with turn_end {shutdown: true} and
\* shutdown = true, appends exactly one shutdown_approved, to the parent and
\* with the request's requestId (none when the agent has no parent), and
\* leaves the agent without unread message.
ShutdownShortCircuit ==
  \A a \in DOMAIN turn :
    turn[a].sawRequest =>
      /\ turn[a].kind = "shutdown"
      /\ turn[a].chats = 0
      /\ turn[a].turn_end = "shutdown"
      /\ ~turn[a].unreadAfter
      /\ IF runners[a].lead_agent # NoAgent
         THEN /\ turn[a].apprAdded = 1
              /\ turn[a].apprToLead = 1
              /\ turn[a].echoed = turn[a].requestId
         ELSE turn[a].apprAdded = 0

\* a teammate's turn took the short-circuit on a request carrying a requestId
\* and its parent's inbox now ends with the approval
ApprovedWithRequestId ==
  \E a \in DOMAIN turn :
    /\ turn[a].kind = "shutdown" /\ turn[a].requestId = "r1"
    /\ runners[a].lead_agent # NoAgent
    /\ CountTo(inbox, runners[a].lead_agent, "shutdown_approved", a) = 1
    /\ ~HasUnread(inbox, a)

\* the shutdown_request envelopes stop() wrote into one inbox
StopRequests(inb, a) ==
  {i \in DOMAIN ReadRaw(inb, a) :
     /\ inb[a][i].from = "system"
     /\ inb[a][i].text.k = "json"
     /\ inb[a][i].text.type = "shutdown_request"
     /\ inb[a][i].text.reason = "session ending"}

SessionEndOnce ==
  /\ ev.session_end <= 1
  /\ spc = "done" => ev.session_end = 1
  /\ stopPc = "returned" => spc \in {"none", "done"}

\* ---------------------------------------------------------------- C11
\* a run_turn of the agent is in progress: its _run_agent task was created by
\* the scheduler and has not finished
InProgress(a) == tpc[a] \in {"ready", "chat"}

\* C11: turns are in progress only while the scheduler waits in gather, so
\* the scheduler never takes a readiness snapshot while a turn of the previous
\* round is unfinished, and a new turn of an agent is created only when no
\* turn of any agent is in progress: an agent never has two turns at once.
TurnsBehindBarrier ==
  /\ [](\A a \in DOMAIN tpc : InProgress(a) => spc = "gather")
  /\ [][\A a \in DOMAIN tpc :
          tpc'[a] = "ready" /\ tpc[a] # "ready" => \A b \in DOMAIN tpc : ~InProgress(b)]_vars
\* an agent whose earlier turn consumed a message is scheduled again while
\* another agent of the same round is still with the provider
SecondRoundStarted ==
  /\ spc = "gather"
  /\ \E a, b \in DOMAIN tpc :
       /\ a # b
       /\ tpc[a] = "ready"
       /\ tpc[b] = "chat"
       /\ \E i \in DOMAIN inbox[a] : inbox[a][i].read

\* ---------------------------------------------------------------- C12
\* The scheduler loop taken one iteration at a time, with messages of the
\* user and turns that answer without tool calls.  The task store holds no
\* task, a task of the top leader (nobody is nudged for it) or a task
\* without owner (the top leader is nudged for it).
IdleTasks == {EmptyTasks, WriteTask(EmptyTasks, NewTask(1, "s", "lead")),
              WriteTask(EmptyTasks, NewTask(1, "s", "w1")),
              WriteTask(EmptyTasks, NewTask(1, "s", NoAgent))}
InitIdle ==
  /\ configs = ToolRoster
  /\ runners = [n \in {} |-> 0]
  /\ call = NoCall
  /\ NoSession
  /\ NoPure
  /\ inbox = NoFiles
  /\ tasks \in IdleTasks
  /\ hwm = Cardinality(DOMAIN tasks)
  /\ NoCallers
NextIdle ==
  \/ Start
  \/ SchedEnter(FALSE)
  \/ SchedTick
  \/ SchedAfterGather
  \/ SchedAfterSleep05(FALSE)
  \/ \E a \in DOMAIN tpc : TurnStart(a)
  \/ \E a \in DOMAIN tpc : ChatFinal(a)
  \/ \E target \in {NoAgent, "w1"} : SendUserMessage(PlainText, target)
SpecIdle == InitIdle /\ [][NextIdle]_vars

\* C12: idle_seconds counts the consecutive iterations that found no unread
\* message and is 0 after every iteration that found one; the iteration that
\* is the 300th of them leaves the loop and session_end is emitted; the loop
\* is never left by the idle timeout with idle_seconds below 300.
IdleTimeoutAfter300 ==
  /\ [](/\ sloc.quiet <= IDLE_TIMEOUT
        /\ spc = "sleep1" => sloc.quiet = sloc.idle_seconds + 1
        /\ spc \in {"gather", "sleep05"} => sloc.idle_seconds = 0 /\ sloc.quiet = 0
        /\ sloc.exit = "timeout" =>
             /\ sloc.idle_seconds = IDLE_TIMEOUT
             /\ sloc.quiet = IDLE_TIMEOUT
             /\ spc = "done"
             /\ ev.session_end = 1)
  /\ [][spc = "sleep1" /\ sloc.quiet = IDLE_TIMEOUT /\ spc' # spc
          => spc' \in {"done", "cancelled_run"} /\ (spc' = "done" => ev'.session_end = 1)]_vars
\* the loop was left by the idle timeout after a turn had consumed a message
TimedOutAfterTurn ==
  /\ sloc.exit = "timeout"
  /\ ev.session_end = 1
  /\ \E a \in DOMAIN inbox : \E i \in DOMAIN inbox[a] : inbox[a][i].read

\* ---------------------------------------------------------------- C13
\* _maybe_compact_history.  An entry of the history is its role and its
\* content; the content of an ordinary entry is identified by a number, the
\* content of the summary marker says how many entries were compacted.
MAX_HISTORY_MESSAGES == 40
KeptEntries == 20
MaxHistory == 42       \* entries of a history drawn at the start
MaxAppends == 3        \* entries appended by turns in one behaviour

Entry(role, n) == [role |-> role, content |-> [k |-> "text", n |-> n]]
SummaryMarker(trimmed_count) ==
  [role |-> "user", content |-> [k |-> "compacted", n |-> trimmed_count]]
LastEntries(h, n) == SubSeq(h, Len(h) - n + 1, Len(h))
MaybeCompactHistoryAtLimit(h) ==
  IF Len(h) < MAX_HISTORY_MESSAGES THEN h
  ELSE <<SummaryMarker(Len(h) - KeptEntries)>> \o LastEntries(h, KeptEntries)
MaybeCompactHistory(h) ==
  IF Len(h) <= MAX_HISTORY_MESSAGES THEN h
  ELSE <<SummaryMarker(Len(h) - KeptEntries)>> \o LastEntries(h, KeptEntries)

\* a history of n entries, numbered in order, the first by an assistant
\* (first = 0) or by the user (first = 1)
HistoryOf(n, first) ==
  [i \in 1..n |-> Entry(IF (i + first) % 2 = 1 THEN "assistant" ELSE "user", i)]
InitCompact ==
  /\ NoEngine
  /\ inbox = NoFiles
  /\ TaskStoreNew
  /\ NoCallers
\* the runner is handed over with a history some turns have built
DrawHistory(n, first) ==
  /\ conv = NoConv
  /\ conv' = [NoConv EXCEPT !.before = HistoryOf(n, first),
                            !.history = HistoryOf(n, first), !.appends = 1]
  /\ UNCHANGED <<configs, runners, call, wire, lazy, sse, rturn, storeVars, procVars, histVars, sessVars>>
\* run_turn appends the assistant's content or the tool results
AppendEntry(role) ==
  /\ conv.appends \in 1..MaxAppends
  /\ Len(conv.history) < MaxHistory
  /\ conv' = [conv EXCEPT !.history = Append(@, Entry(role, Len(conv.history) + 100)),
                          !.appends = @ + 1, !.compactions = 0]
  /\ UNCHANGED <<configs, runners, call, wire, lazy, sse, rturn, storeVars, procVars, histVars, sessVars>>
\* run_turn calls _maybe_compact_history before it builds the messages
Compact ==
  /\ conv.appends >= 1
  /\ conv' = [conv EXCEPT !.before = conv.history,
                          !.history = MaybeCompactHistory(conv.history),
                          !.compactions = 1]
  /\ UNCHANGED <<configs, runners, call, wire, lazy, sse, rturn, storeVars, procVars, histVars, sessVars>>
NextCompact ==
  \/ \E n \in 0..MaxHistory, first \in 0..1 : DrawHistory(n, first)
  \/ \E role \in {"assistant", "user"} : AppendEntry(role)
  \/ Compact
SpecCompact == InitCompact /\ [][NextCompact]_vars

\* C13: after _maybe_compact_history a history of more than 40 entries has
\* become the summary marker (role user, content saying "compacted")
\* followed by its last 20 entries in order, 21 entries in all; a history of
\* at most 40 entries is unchanged.
CompactionKeepsLast20 ==
  conv.compactions = 1 =>
    IF Len(conv.before) > 40
    THEN /\ Len(conv.history) = 21
         /\ conv.history[1].role = "user"
         /\ conv.history[1].content.k = "compacted"
         /\ \A i \in 1..20 : conv.history[i + 1] = conv.before[Len(conv.before) - 20 + i]
    ELSE conv.history = conv.before
\* a history of 42 entries, one of them appended by a turn, was compacted
LongHistoryCompacted ==
  /\ conv.compactions = 1
  /\ Len(conv.before) = 42
  /\ conv.appends > 1
  /\ Len(conv.history) = 21

\* ---------------------------------------------------------------- C14
\* The serialized form of an envelope.  A text on the wire is a sequence of
\* chunks: the punctuation of JSON, the literals true and false, and runs of
\* ordinary characters.  The inbox model above keeps the text of a message
\* in decoded form; here json.dumps and json.loads are spelled out.
QUOTE == "\""
BACKSLASH == "\\"
\* the names, ids and free texts that callers put into envelopes
Texts == {"", "ok", "a\"b", "a\\b"}
Senders == {"lead", "w1"}
Chars(s) ==
  IF s = "" THEN <<>>
  ELSE IF s = "a\"b" THEN <<"a", QUOTE, "b">>
  ELSE IF s = "a\\b" THEN <<"a", BACKSLASH, "b">>
  ELSE <<s>>
EnvelopeTypes ==
  {"idle_notification", "shutdown_request", "shutdown_approved", "task_assignment",
   "task_completed", "plan_approval_request", "plan_approval_response"}
\* the bools of the model are the names of their JSON literals
Literals == {"true", "false"}
Strings == Texts \cup Senders \cup EnvelopeTypes \cup Literals \cup {"available", "1", "10"}
TextOf(chunks) ==
  IF \E s \in Strings : Chars(s) = chunks THEN CHOOSE s \in Strings : Chars(s) = chunks
  ELSE "?"

\* json.dumps of a str: the quote and the backslash are escaped
RECURSIVE Escape(_)
EscapeNothing(chunks) == IF chunks = <<>> THEN <<>> ELSE <<Head(chunks)>> \o Escape(Tail(chunks))
Escape(chunks) ==
  IF chunks = <<>> THEN <<>>
  ELSE (IF Head(chunks) \in {QUOTE, BACKSLASH} THEN <<BACKSLASH, Head(chunks)>>
        ELSE <<Head(chunks)>>) \o Escape(Tail(chunks))
JsonString(s) == <<QUOTE>> \o Escape(Chars(s)) \o <<QUOTE>>
\* approve is a bool, every other field a str
JsonValue(key, v) == IF key = "approve" THEN <<v>> ELSE JsonString(v)

\* json.dumps of the payload dict: the keys it holds, in insertion order
PayloadKeys == <<"type", "from", "reason", "idleReason", "taskId", "taskSubject",
                 "requestId", "approve", "plan", "target">>
RECURSIVE Members(_, _, _)
Members(env, keys, first) ==
  IF keys = <<>> THEN <<>>
  ELSE IF env[Head(keys)] = Absent THEN Members(env, Tail(keys), first)
  ELSE (IF first THEN <<>> ELSE <<",">>)
       \o JsonString(Head(keys)) \o <<":">> \o JsonValue(Head(keys), env[Head(keys)])
       \o Members(env, Tail(keys), FALSE)
JsonDumps(env) == <<"{">> \o Members(env, PayloadKeys, TRUE) \o <<"}">>

\* json.loads: a str from its opening quote to the closing one
NoString == [ok |-> FALSE, chunks |-> <<>>, next |-> 0]
RECURSIVE ScanString(_, _, _)
ScanString(t, j, acc) ==
  IF j > Len(t) THEN NoString
  ELSE IF t[j] = QUOTE THEN [ok |-> TRUE, chunks |-> acc, next |-> j + 1]
  ELSE IF t[j] = BACKSLASH
       THEN IF j + 1 > Len(t) THEN NoString ELSE ScanString(t, j + 2, Append(acc, t[j + 1]))
  ELSE ScanString(t, j + 1, Append(acc, t[j]))
ReadString(t, i) == IF i <= Len(t) /\ t[i] = QUOTE THEN ScanString(t, i + 1, <<>>) ELSE NoString
\* a value: a str or one of the literals
ReadValue(t, i) ==
  IF i <= Len(t) /\ t[i] \in Literals
  THEN [ok |-> TRUE, chunks |-> <<t[i]>>, next |-> i + 1]
  ELSE ReadString(t, i)
\* the members of an object up to the closing brace; JSONDecodeError is NoParse
RECURSIVE ReadMembers(_, _, _)
ReadMembers(t, i, acc) ==
  LET key == ReadString(t, i)
      val == ReadValue(t, key.next + 1)
      name == IF Len(key.chunks) = 1 THEN key.chunks[1] ELSE "?"
  IN IF ~key.ok \/ key.next > Len(t) \/ t[key.next] # ":" \/ ~val.ok \/ val.next > Len(t)
        \/ name \notin DOMAIN acc
     THEN NoParse
     ELSE LET got == [acc EXCEPT ![name] = TextOf(val.chunks)]
          IN IF t[val.next] = "}" /\ val.next = Len(t) THEN got
             ELSE IF t[val.next] = "," THEN ReadMembers(t, val.next + 1, got)
             ELSE NoParse
JsonLoads(t) ==
  IF Len(t) < 2 \/ t[1] # "{" THEN NoParse
  ELSE IF t = <<"{", "}">> THEN [NoParse EXCEPT !.k = "json"]
  ELSE ReadMembers(t, 2, [NoParse EXCEPT !.k = "json"])

\* the text create_protocol_event puts into the message, and
\* parse_protocol_message on such a text
SerializeEnvelope(env) == JsonDumps(env)
ParseWire(text) ==
  LET parsed == JsonLoads(text)
  IN IF parsed.k = "json" /\ parsed.type # Absent THEN parsed ELSE NoParse

\* the envelopes the seven constructors make
EnvelopesMade ==
  UNION {
    {CreateIdleNotification(f)}
    \cup {CreateShutdownRequest(f, r, t) : r \in Texts, t \in Senders}
    \cup {CreateShutdownApproved(f, r) : r \in Texts}
    \cup {CreateTaskAssignment(f, id, r) : id \in {"1", "10"}, r \in Texts}
    \cup {CreateTaskCompleted(f, id, r) : id \in {"1", "10"}, r \in Texts}
    \cup {CreatePlanApprovalRequest(f, r, c) : r \in Texts, c \in Texts}
    \cup {CreatePlanApprovalResponse(f, r, a, c) : r \in Texts, a \in Literals, c \in Texts}
    : f \in Senders}

InitWire ==
  /\ NoEngine
  /\ inbox = NoFiles
  /\ TaskStoreNew
  /\ NoCallers
\* a constructor makes an envelope and its text
MakeEnvelope(env) ==
  /\ wire.stage = "none"
  /\ wire' = [env |-> env, text |-> SerializeEnvelope(env), parsed |-> NoParse, stage |-> "made"]
  /\ UNCHANGED <<configs, runners, call, conv, lazy, sse, rturn, storeVars, procVars, histVars, sessVars>>
\* a message with a plain text
MakePlain(s) ==
  /\ wire.stage = "none"
  /\ wire' = [env |-> NoParse, text |-> Chars(s), parsed |-> NoParse, stage |-> "made"]
  /\ UNCHANGED <<configs, runners, call, conv, lazy, sse, rturn, storeVars, procVars, histVars, sessVars>>
\* the reader of the inbox parses the text
ParseText ==
  /\ wire.stage = "made"
  /\ wire' = [wire EXCEPT !.parsed = ParseWire(wire.text), !.stage = "parsed"]
  /\ UNCHANGED <<configs, runners, call, conv, lazy, sse, rturn, storeVars, procVars, histVars, sessVars>>
NextWire ==
  \/ \E env \in EnvelopesMade : MakeEnvelope(env)
  \/ \E s \in Texts : MakePlain(s)
  \/ ParseText
SpecWire == InitWire /\ [][NextWire]_vars

\* C14: parsing the serialized text of an envelope of any of the seven types
\* returns the envelope, with the same type and from.
EnvelopeRoundTrip ==
  (wire.stage = "parsed" /\ wire.env # NoParse) =>
    /\ wire.env.type \in EnvelopeTypes
    /\ wire.parsed = wire.env
    /\ wire.parsed.type = wire.env.type
    /\ wire.parsed.from = wire.env.from
\* a plan_approval_response whose reason holds a quote was parsed
QuotedReasonParsed ==
  /\ wire.stage = "parsed"
  /\ wire.env.type = "plan_approval_response"
  /\ wire.env.reason = "a\"b"
  /\ wire.env.approve = "true"

\* ---------------------------------------------------------------- C15
\* TaskCreate and TaskUpdate calls that carry metadata, by the leader of the
\* two-agent team.
Meta(priority, source, tag) ==
  [k \in MetaKeys |-> IF k = "priority" THEN priority ELSE IF k = "source" THEN source ELSE tag]
MetaCreated == {NoMeta, Meta("high", "user", Absent)}
MetaUpdates ==
  {Meta(p, src, t) : p \in {Absent, "low", Null}, src \in {Absent, Null, "web"},
                     t \in {Absent, "v2"}}
ExecTaskCreateMeta(a, meta) ==
  /\ hwm < MaxTasks
  /\ LET args == [NoArgs EXCEPT !.name = "TaskCreate", !.subject = "s", !.metadata = meta]
     IN Executed(a, args, HandleTaskCreate(a, inbox, tasks, hwm, args))
ExecTaskUpdateMeta(a, id, meta) ==
  LET args == [NoArgs EXCEPT !.name = "TaskUpdate", !.taskId = id, !.metadata = meta]
  IN Executed(a, args, HandleTaskUpdate(a, runners[a].lead_agent, inbox, tasks, hwm, args))
NextMeta ==
  \/ \E meta \in MetaCreated : ExecTaskCreateMeta("lead", meta)
  \/ \E id \in 1..MaxTasks, meta \in MetaUpdates : ExecTaskUpdateMeta("lead", id, meta)
SpecMeta == InitTool /\ [][NextMeta]_vars

MaxListed == 11        \* tasks created before the calls
StoreOf(n) == [id \in 1..n |-> NewTask(id, "s", NoAgent)]
InitList ==
  /\ configs = ToolRoster
  /\ runners = BuildRunners(ToolRoster)
  /\ call = NoCall
  /\ NoSession
  /\ NoPure
  /\ inbox = NoFiles
  /\ \E n \in 0..MaxListed : tasks = StoreOf(n) /\ hwm = n
  /\ NoCallers
ListIds == {1, 2, 10}
ExecTaskList(a) ==
  LET args == [NoArgs EXCEPT !.name = "TaskList"]
  IN Executed(a, args, HandleTaskList(inbox, tasks, hwm))
ExecTaskGet(a, id) ==
  LET args == [NoArgs EXCEPT !.name = "TaskGet", !.taskId = id]
  IN Executed(a, args, HandleTaskGet(inbox, tasks, hwm, args))
NextList ==
  \/ ExecTaskList("lead")
  \/ \E id \in ListIds : ExecTaskGet("lead", id)
  \/ \E id \in ListIds, st \in {"completed", "deleted"} : ExecTaskUpdate("lead", id, Absent, st)
SpecList == InitList /\ [][NextList]_vars

\* the ids of the tasks that were created and are stored no more
Purged == (1..hwm) \ DOMAIN tasks

ListedInNumericOrder ==
  call.args.name = "TaskList" =>
    /\ Len(call.listed) = Cardinality(DOMAIN tasks)
    /\ {call.listed[i].id : i \in DOMAIN call.listed} = DOMAIN tasks
    /\ \A i, j \in DOMAIN call.listed : i < j => call.listed[i].id < call.listed[j].id

\* ---------------------------------------------------------------- C18, C19, C20
\* One execute call of SpecTool is one step; these operators compare the
\* inboxes before and after it.
ToolStep(name) == ncalls' = ncalls + 1 /\ call'.args.name = name
InboxNames == DOMAIN inbox \cup DOMAIN inbox'
NewMessages(y) ==
  SubSeq(ReadRaw(inbox', y), Len(ReadRaw(inbox, y)) + 1, Len(ReadRaw(inbox', y)))
OnlyAppended ==
  \A y \in InboxNames :
    /\ Len(ReadRaw(inbox', y)) >= Len(ReadRaw(inbox, y))
    /\ SubSeq(ReadRaw(inbox', y), 1, Len(ReadRaw(inbox, y))) = ReadRaw(inbox, y)
IsTaskEnvelope(m, type, from, task) ==
  /\ m.from = from
  /\ ParseProtocolMessage(m.text).type = type
  /\ ParseProtocolMessage(m.text).from = from
  /\ ParseProtocolMessage(m.text).taskId = task.id
  /\ ParseProtocolMessage(m.text).taskSubject = task.subject
OfType(msgs, type) == {i \in DOMAIN msgs : ParseProtocolMessage(msgs[i].text).type = type}

CompletedEnvelopeToParent ==
  [][(ToolStep("TaskUpdate") /\ call'.existed /\ call'.args.status = "completed") =>
       LET lead == runners[call'.agent].lead_agent
       IN /\ OnlyAppended
          /\ IF Truthy(lead) /\ lead # call'.agent
             THEN /\ Cardinality(OfType(NewMessages(lead), "task_completed")) = 1
                  /\ \A i \in OfType(NewMessages(lead), "task_completed") :
                       IsTaskEnvelope(NewMessages(lead)[i], "task_completed", call'.agent,
                                      call'.prev)
                  /\ \A y \in InboxNames \ {lead} : OfType(NewMessages(y), "task_completed") = {}
             ELSE \A y \in InboxNames : NewMessages(y) = <<>>]_vars

\* C19, amended: without a parent no task_completed envelope is appended to
\* any inbox; the only message an inbox receives then is the task_assignment
\* envelope to the owner that the same update names.
CompletedEnvelopeOrAssignmentOnly ==
  [][(ToolStep("TaskUpdate") /\ call'.existed /\ call'.args.status = "completed") =>
       LET lead == runners[call'.agent].lead_agent
       IN /\ OnlyAppended
          /\ IF Truthy(lead) /\ lead # call'.agent
             THEN /\ Cardinality(OfType(NewMessages(lead), "task_completed")) = 1
                  /\ \A i \in OfType(NewMessages(lead), "task_completed") :
                       IsTaskEnvelope(NewMessages(lead)[i], "task_completed", call'.agent,
                                      call'.prev)
                  /\ \A y \in InboxNames \ {lead} : OfType(NewMessages(y), "task_completed") = {}
             ELSE \A y \in InboxNames :
                    /\ OfType(NewMessages(y), "task_completed") = {}
                    /\ Len(NewMessages(y)) =
                         (IF Truthy(call'.args.owner) /\ y = call'.args.owner THEN 1 ELSE 0)]_vars
\* the worker completed a task and its parent holds the envelope
ParentToldOfCompletion ==
  /\ call.args.name = "TaskUpdate"
  /\ call.existed
  /\ call.agent = "w1"
  /\ call.args.status = "completed"
  /\ call.args.owner = Absent
  /\ CountTo(inbox, "lead", "task_completed", "w1") >= 1

ReadRawIn(dir, inb, agent) == IF ~dir THEN <<>> ELSE ReadRaw(inb, agent)
\* `if unread:` of read_unread and `if count > 0:` of mark_read
WritesBackAlways(changed) == TRUE
WritesBack(changed) == changed # <<>>

InitLazy ==
  /\ NoEngine
  /\ inbox = NoFiles
  /\ TaskStoreNew
  /\ NoCallers

LazyCall(name, agent, val, writes, messages) ==
  /\ ncalls < MaxCalls
  /\ ncalls' = ncalls + 1
  /\ inbox' = IF writes THEN WriteRaw(inbox, agent, messages) ELSE inbox
  /\ lazy' = [dir |-> lazy.dir \/ writes, name |-> name, agent |-> agent, val |-> val,
              appends |-> lazy.appends + (IF name = "append_message" THEN 1 ELSE 0)]
  /\ UNCHANGED <<tasks, hwm, ilock, tlock, pc, op, loc, ret, nextUid, histVars, configs, runners,
                 call, conv, wire, sse, rturn, sessVars>>

LazyReadAll(agent) ==
  LazyCall("read_all", agent, ReadRawIn(lazy.dir, inbox, agent), FALSE, <<>>)
LazyReadUnread(agent) ==
  LET messages == ReadRawIn(lazy.dir, inbox, agent)
      unread == SelectUnread(messages)
  IN LazyCall("read_unread", agent, unread, WritesBack(unread), MarkAll(messages))
LazyMarkRead(agent) ==
  LET messages == ReadRawIn(lazy.dir, inbox, agent)
      unread == SelectUnread(messages)
  IN LazyCall("mark_read", agent, <<>>, WritesBack(unread), MarkAll(messages))
LazyAppend(agent, from) ==
  LET messages == ReadRawIn(lazy.dir, inbox, agent)
  IN LazyCall("append_message", agent, <<Message(from, PlainText, 0)>>, TRUE,
              Append(messages, Message(from, PlainText, 0)))

NextLazy ==
  \/ \E a \in StoreAgents : LazyReadAll(a)
  \/ \E a \in StoreAgents : LazyReadUnread(a)
  \/ \E a \in StoreAgents : LazyMarkRead(a)
  \/ \E a \in StoreAgents, from \in {"user", "a"} : LazyAppend(a, from)
SpecLazy == InitLazy /\ [][NextLazy]_vars

\* C21: read_all and read_unread create neither the inbox directory nor an
\* inbox file and return the empty list for an agent without a file; the
\* directory exists only once an append_message was made, and exactly the
\* agents that were appended to have a file: an append for a creates no file
\* for another agent.
InboxCreatedLazily ==
  /\ [](/\ lazy.dir => lazy.appends > 0
        /\ DOMAIN inbox # {} => lazy.dir
        /\ lazy.appends = 0 => DOMAIN inbox = {})
  /\ [][/\ lazy'.name \in {"read_all", "read_unread"} =>
             /\ lazy'.dir = lazy.dir
             /\ DOMAIN inbox' = DOMAIN inbox
             /\ lazy'.agent \notin DOMAIN inbox => lazy'.val = <<>> /\ inbox' = inbox
        /\ lazy'.name = "append_message" =>
             /\ lazy'.dir
             /\ DOMAIN inbox' = DOMAIN inbox \cup {lazy'.agent}
             /\ \A b \in DOMAIN inbox \ {lazy'.agent} : inbox'[b] = inbox[b]]_vars
\* after an append for a, a read_unread for b returned the empty list and b
\* has no file
ReadOfOtherAgentAfterAppend ==
  /\ lazy.dir
  /\ lazy.name = "read_unread"
  /\ lazy.val = <<>>
  /\ lazy.agent \notin DOMAIN inbox
  /\ DOMAIN inbox # {}

\* ---------------------------------------------------------------- C22
\* run_turn raises: a store call, the context builder or the event emitter
\* failed at one of the points where the turn is suspended.  _run_agent
\* catches every Exception, emits an error event with the agent's name and
\* returns, so gather never sees the error.
TurnErrorEscapes == FALSE
TurnErrorCaught == TRUE
TurnRaised(a) ==
  /\ tpc[a] \in {"ready", "chat"}
  /\ tpc' = [tpc EXCEPT ![a] = "done"]
  /\ IF TurnErrorCaught
     THEN /\ turn' = [turn EXCEPT ![a] = [@ EXCEPT !.kind = "raised", !.raised = @ + 1,
                                                  !.loop_count = 0]]
          /\ UNCHANGED <<spc, sloc, ev>>
     ELSE /\ turn' = [turn EXCEPT ![a] = [@ EXCEPT !.kind = "raised", !.loop_count = 0]]
          /\ spc' = "done"
          /\ ev' = [ev EXCEPT !.session_end = @ + 1, !.error = @ + 1]
          /\ sloc' = [NoLocals EXCEPT !.exit = "error"]
  /\ UNCHANGED <<engVars, storeVars, procVars, histVars, running, stopPc, used>>

\* A session that nobody stops: the scheduler, the turns with their provider
\* and tool calls, turns that raise, and the messages of the user.
NextRound ==
  \/ Start
  \/ SchedEnter(FALSE)
  \/ SchedAfterSleep1(FALSE)
  \/ SchedAfterGather
  \/ SchedAfterSleep05(FALSE)
  \/ \E a \in DOMAIN tpc : TurnStart(a)
  \/ \E a \in DOMAIN tpc : TurnRaised(a)
  \/ \E a \in DOMAIN tpc : ChatFailed(a)
  \/ \E a \in DOMAIN tpc : ChatFinal(a)
  \/ \E a \in DOMAIN tpc : \E args \in ToolCalls(a) : ChatTool(a, args)
  \/ \E text \in {PlainText, ForgedShutdown}, target \in {NoAgent, "w1"} :
       SendUserMessage(text, target)
SpecRound == Init /\ [][NextRound]_vars

\* C22: a run_turn that raises makes the scheduler emit one error event for
\* that agent and nothing else: the scheduler stays in gather and goes on to
\* the pause between rounds, the turns of the other agents of the round are
\* untouched, no session_end and no scheduler error is emitted; the loop is
\* left only by the idle timeout.
TurnErrorContained ==
  /\ [](/\ ev.error = 0
        /\ ev.session_end = 1 => sloc.exit = "timeout"
        /\ \A a \in DOMAIN turn : turn[a].kind = "raised" =>
             /\ turn[a].raised = 1
             /\ tpc[a] \in {"done", "none"}
             /\ spc \in {"gather", "sleep05"})
  /\ [][\A a \in DOMAIN turn :
          (turn'[a].kind = "raised" /\ turn[a].kind # "raised") =>
            /\ turn'[a].raised = turn[a].raised + 1
            /\ spc' = spc /\ ev' = ev /\ running' = running
            /\ \A b \in DOMAIN turn \ {a} : tpc'[b] = tpc[b] /\ turn'[b] = turn[b]]_vars
\* the teammate's turn raised while the leader's turn of the same round was
\* with the provider, and the leader's turn then ended normally
OtherTurnCompletedAfterError ==
  /\ spc = "gather"
  /\ turn["w1"].kind = "raised"
  /\ turn["lead"].kind = "normal"
  /\ turn["lead"].chats >= 2
  /\ ev.session_end = 0

\* ---------------------------------------------------------------- C23
\* the last n events of a trace
LastEvents(trace, n) == SubSeq(trace, Len(trace) - n + 1, Len(trace))

\* C23: the step in which provider.chat fails emits one error event, calls
\* no provider and runs no tool, emits turn_end and ends run_turn normally:
\* nothing reaches the scheduler and no task changes.  Nothing more happens in
\* that turn.  The next snapshot of the scheduler makes ready exactly the
\* agents with unread messages, whatever their last turn was.
ChatFailureEndsTurn ==
  /\ [](\A a \in DOMAIN turn : turn[a].how = "failed" =>
          /\ turn[a].errors = 1
          /\ turn[a].kind = "normal" /\ turn[a].turn_end = "normal"
          /\ turn[a].raised = 0
          /\ tpc[a] \in {"done", "none"}
          /\ turn[a].loops = turn[a].chats
          /\ turn[a].tools = turn[a].chats - 1
          /\ "turn_end" \in {LastEvents(turn[a].trace, 3)[i] : i \in 1..3}
          /\ \E i \in DOMAIN turn[a].trace :
               /\ turn[a].trace[i] = "error"
               /\ turn[a].trace[i + 1] = "turn_end"
               /\ \A j \in DOMAIN turn[a].trace :
                    j > i => turn[a].trace[j] \notin {"thinking", "tool_call", "tool_result"})
  /\ [][\A a \in DOMAIN turn :
          /\ (turn'[a].how = "failed" /\ turn[a].how # "failed") =>
               /\ tpc[a] = "chat" /\ tpc'[a] = "done"
               /\ turn'[a].chats = turn[a].chats
               /\ turn'[a].tools = turn[a].tools
               /\ turn'[a].errors = turn[a].errors + 1
               /\ tasks' = tasks /\ hwm' = hwm
               /\ spc' = spc /\ ev' = ev /\ running' = running
          /\ (turn[a].how = "failed" /\ turn'[a] # turn[a]) =>
               /\ spc = "sleep05"
               /\ turn'[a].kind = "none"
          /\ (spc = "sleep05" /\ spc' = "gather") =>
               (tpc'[a] = "ready" <=> HasUnread(inbox, a))]_vars
\* an agent whose chat failed in the round before is scheduled again
FailedAgentScheduledAgain ==
  /\ spc = "gather"
  /\ \E a \in DOMAIN turn : tpc[a] = "ready" /\ turn[a].before = "failed"

\* ---------------------------------------------------------------- C24
\* Every tool through ToolExecutor.execute, with arguments a model may get
\* wrong: a name that is no tool, a missing recipient or request_id, a task id
\* that does not exist.
ToolNames == {"SendMessage", "TaskCreate", "TaskUpdate", "TaskList", "TaskGet"}
SendTypes == {Absent, "message", "broadcast", "shutdown_request", "shutdown_response",
              "plan_approval_request", "plan_approval_response"}
ExecAny(a, args) ==
  Executed(a, args, Execute(a, runners[a], inbox, tasks, hwm, args))
ExecSendMessage(a, type, recipient, request_id) ==
  ExecAny(a, [NoArgs EXCEPT !.name = "SendMessage", !.type = type, !.recipient = recipient,
                            !.request_id = request_id])
NextExec ==
  \/ ExecTaskCreate("lead", "s")
  \/ \E id \in TaskIdArgs, st \in {Absent, "deleted"} : ExecTaskUpdate("lead", id, "w1", st)
  \/ \E id \in TaskIdArgs : ExecTaskGet("lead", id)
  \/ ExecTaskList("lead")
  \/ \E a \in DOMAIN runners, type \in SendTypes, r \in {Absent, "", "lead"},
        q \in {Absent, "r1"} : ExecSendMessage(a, type, r, q)
  \/ \E name \in {"TaskDelete", "Bash"} : ExecAny("w1", [NoArgs EXCEPT !.name = name])
SpecExec == InitTool /\ [][NextExec]_vars

\* the calls of the claim: an unknown tool, a SendMessage without the
\* recipient or the request_id its type requires, a TaskUpdate or TaskGet of
\* a task that does not exist
IsErrorCall(args, ts) ==
  \/ args.name \notin ToolNames
  \/ /\ args.name = "SendMessage"
     /\ \/ args.type # "broadcast" /\ ~Truthy(args.recipient)
        \/ args.type \in {"plan_approval_request", "plan_approval_response"}
             /\ ~Truthy(args.request_id)
  \/ args.name \in {"TaskUpdate", "TaskGet"} /\ args.taskId \notin DOMAIN ts

\* C24: execute never raises, and each of these calls returns an error
\* result, changes no inbox and no task and fires no callback.
ExecuteReturnsErrors ==
  /\ [](call.result \in {"none", "error", "sent", "task", "read"})
  /\ [][(ncalls' = ncalls + 1 /\ IsErrorCall(call'.args, tasks)) =>
          /\ call'.result = "error"
          /\ inbox' = inbox /\ tasks' = tasks /\ hwm' = hwm
          /\ call'.changed = 0 /\ call'.assigned = 0 /\ call'.completed = 0
          /\ call'.sent = 0]_vars
\* a TaskUpdate without a taskId failed after another call had sent a message
\* and a task existed
UpdateWithoutIdFailed ==
  /\ call.args.name = "TaskUpdate"
  /\ call.args.taskId = NoKey
  /\ call.result = "error"
  /\ DOMAIN inbox # {}
  /\ DOMAIN tasks # {}

\* ---------------------------------------------------------------- C25
\* A session that nobody stops and in which nothing raises, under fair
\* scheduling: the event loop runs the scheduler task whenever it can take a
\* step, and every call of the provider returns (with a failure, a final
\* answer or a tool call).  The models list tasks, write to each other and
\* ask each other to shut down.
FairToolCalls(a) ==
  LET send == [NoArgs EXCEPT !.name = "SendMessage", !.type = "message"]
  IN UNION {{[send EXCEPT !.recipient = r],
             [send EXCEPT !.recipient = r, !.type = "shutdown_request"]} :
            r \in NameSet(configs) \ {a}}
     \cup {[NoArgs EXCEPT !.name = "TaskList"]}
SchedStep ==
  \/ SchedEnter(FALSE)
  \/ SchedAfterSleep1(FALSE)
  \/ SchedAfterGather
  \/ SchedAfterSleep05(FALSE)
TurnStep(a) ==
  \/ TurnStart(a)
  \/ ChatFailed(a)
  \/ ChatFinal(a)
  \/ \E args \in FairToolCalls(a) : ChatTool(a, args)
NextFair ==
  \/ Start
  \/ SchedStep
  \/ \E a \in DOMAIN tpc : TurnStep(a)
  \/ \E target \in {NoAgent, "w1"} : SendUserMessage(PlainText, target)
SpecFair ==
  /\ Init /\ [][NextFair]_vars
  /\ WF_vars(SchedStep)
  /\ \A a \in NameSet(ToolRoster) : WF_vars(a \in DOMAIN tpc /\ TurnStep(a))

\* C25: a turn calls the provider at most MAX_TOOL_LOOPS = 10 times, the
\* loops that turn_end reports are the provider calls made, and every turn
\* that was created comes to its end, whatever the provider answers.
RunTurnTerminates ==
  /\ [](\A a \in DOMAIN turn :
          /\ turn[a].chats <= 10
          /\ turn[a].loop_count <= 10
          /\ turn[a].turn_end # "none" => turn[a].loops = turn[a].chats)
  /\ \A a \in NameSet(ToolRoster) :
       (a \in DOMAIN tpc /\ tpc[a] \in {"ready", "chat"})
         ~> (a \in DOMAIN tpc /\ tpc[a] = "done")
\* a turn was ended by the limit after ten provider calls that all asked for
\* a tool
TurnEndedByLimit ==
  \E a \in DOMAIN turn :
    /\ turn[a].how = "limit"
    /\ turn[a].chats = 10 /\ turn[a].loops = 10 /\ turn[a].tools = 10
    /\ tpc[a] = "done"

\* ---------------------------------------------------------------- C26
\* the positions of the unread messages of the user in an agent's inbox
UnreadOfUser(inb, a) ==
  {i \in DOMAIN ReadRaw(inb, a) : inb[a][i].from = "user" /\ ~inb[a][i].read}
\* the scheduler loop is alive
LoopAlive == running /\ spc \notin {"none", "done"}

\* C26: a send_user_message appends one unread message of "user" to the inbox
\* of one agent of the roster and changes no other inbox; while the session
\* is running and not stopped, an agent with an unread message of the user
\* eventually has a turn whose request to the model holds a message of the
\* user.
UserMessageReachesModel ==
  /\ [][used'.user = used.user + 1 =>
          \E t \in NameSet(configs) :
            /\ t \in DOMAIN inbox'
            /\ inbox'[t] = Append(ReadRaw(inbox, t), inbox'[t][Len(inbox'[t])])
            /\ inbox'[t][Len(inbox'[t])].from = "user"
            /\ ~inbox'[t][Len(inbox'[t])].read
            /\ \A y \in DOMAIN inbox' \ {t} : y \in DOMAIN inbox /\ inbox'[y] = inbox[y]]_vars
  /\ \A a \in NameSet(ToolRoster) :
       (LoopAlive /\ UnreadOfUser(inbox, a) # {})
         ~> (a \in DOMAIN turn /\ \E i \in turn[a].requested : inbox[a][i].from = "user")

\* ---------------------------------------------------------------- C27
\* SSEBroadcaster of one session.  sse.entry: the session id is a key of
\* _subscribers; sse.subs: the queues of its set; sse.q[s]: the queue of
\* stream s; sse.gen[s]: where event_generator of s is suspended ("waiting" in
\* wait_for, "yielded" at the yield of an event, "ended").  History:
\* sse.log, the events in broadcast order, each with its position;
\* sse.out[s], what s yielded; sse.from[s], the events broadcast before s
\* subscribed.
Keepalive == [seq |-> 0, type |-> "keepalive"]
EventTypes == {"agent_message", "session_end"}

\* unsubscribe: `subs.discard(queue)`, `del` of the entry when the set is empty
UnsubscribeKeepsEntry(st, s) ==
  IF st.entry /\ st.subs # {} THEN [st EXCEPT !.subs = @ \ {s}] ELSE st
Unsubscribe(st, s) ==
  IF st.entry /\ st.subs # {}
  THEN [st EXCEPT !.subs = @ \ {s}, !.entry = st.subs \ {s} # {}]
  ELSE st

SseStep ==
  UNCHANGED <<configs, runners, call, conv, wire, lazy, rturn, storeVars, procVars, histVars,
              sessVars>>

\* subscribe, then the first step of event_generator up to wait_for
Subscribe(s) ==
  /\ sse.gen[s] = "none"
  /\ sse' = [sse EXCEPT !.entry = TRUE, !.subs = @ \cup {s}, !.q[s] = <<>>,
                        !.gen[s] = "waiting", !.from[s] = Len(sse.log)]
  /\ SseStep

\* broadcast: put_nowait on every queue of the set; nothing without an entry
SseBroadcast(type) ==
  /\ Len(sse.log) < MaxBroadcasts
  /\ LET event == [seq |-> Len(sse.log) + 1, type |-> type]
     IN sse' = [sse EXCEPT
                  !.log = Append(@, event),
                  !.q = [s \in Streams |->
                           IF sse.entry /\ s \in sse.subs THEN Append(@[s], event) ELSE @[s]]]
  /\ SseStep

\* queue.get() returns an event and the generator yields it
YieldEvent(s) ==
  /\ sse.gen[s] = "waiting"
  /\ sse.q[s] # <<>>
  /\ Len(sse.out[s]) < MaxYields
  /\ sse' = [sse EXCEPT !.q[s] = Tail(@), !.out[s] = Append(@, Head(sse.q[s])),
                        !.gen[s] = "yielded"]
  /\ SseStep

\* the generator is resumed after the yield: `break` after session_end and
\* the finally block, else the next wait_for
BreakNever(event) == FALSE
BreakAfter(event) == event.type = "session_end"
Resume(s) ==
  /\ sse.gen[s] = "yielded"
  /\ sse' = IF BreakAfter(sse.out[s][Len(sse.out[s])])
            THEN [Unsubscribe(sse, s) EXCEPT !.gen[s] = "ended"]
            ELSE [sse EXCEPT !.gen[s] = "waiting"]
  /\ SseStep

\* wait_for times out on an empty queue: the keepalive comment is yielded and
\* the generator, resumed, waits again
YieldKeepalive(s) ==
  /\ sse.gen[s] = "waiting"
  /\ sse.q[s] = <<>>
  /\ Len(sse.out[s]) < MaxYields
  /\ sse' = [sse EXCEPT !.out[s] = Append(@, Keepalive)]
  /\ SseStep

\* the client goes away: the suspended generator is closed, its finally
\* block runs
CloseStream(s) ==
  /\ sse.gen[s] \in {"waiting", "yielded"}
  /\ sse' = [Unsubscribe(sse, s) EXCEPT !.gen[s] = "ended"]
  /\ SseStep

\* cleanup: `self._subscribers.pop(session_id, None)`
SseCleanup ==
  /\ sse.entry
  /\ sse' = [sse EXCEPT !.entry = FALSE, !.subs = {}]
  /\ SseStep

InitSse ==
  /\ NoEngine
  /\ inbox = NoFiles
  /\ TaskStoreNew
  /\ NoCallers
NextSse ==
  \/ \E s \in Streams : Subscribe(s)
  \/ \E type \in EventTypes : SseBroadcast(type)
  \/ \E s \in Streams : YieldEvent(s)
  \/ \E s \in Streams : Resume(s)
  \/ \E s \in Streams : YieldKeepalive(s)
  \/ \E s \in Streams : CloseStream(s)
  \/ SseCleanup
SpecSse == InitSse /\ [][NextSse]_vars

\* the events a stream yielded, without the keepalive comments
Events(out) == SelectSeq(out, LAMBDA e : e.type # "keepalive")

\* C27: the events a stream yielded are, in broadcast order and without a
\* gap, the events broadcast since it subscribed; its last yield is the only
\* one that can be a session_end; a stream that ended is in no subscriber set,
\* and the session has an entry only while its set is not empty.
StreamsInOrderUntilEnd ==
  /\ [](\A s \in Streams :
          /\ Len(Events(sse.out[s])) <= Len(sse.log) - sse.from[s]
          /\ \A i \in DOMAIN Events(sse.out[s]) :
               Events(sse.out[s])[i] = sse.log[sse.from[s] + i]
          /\ \A i \in DOMAIN sse.out[s] :
               sse.out[s][i].type = "session_end" => i = Len(sse.out[s])
          /\ sse.gen[s] = "ended" => s \notin sse.subs
          /\ sse.entry => sse.subs # {})
  /\ [][\A s \in Streams :
          sse.gen[s] = "ended" => sse'.out[s] = sse.out[s] /\ sse'.gen[s] = "ended"]_vars
\* a stream ended after its session_end while events broadcast later wait in
\* its queue, and it was the last of the set
StreamEndedWithQueuedEvents ==
  \E s \in Streams :
    /\ sse.gen[s] = "ended"
    /\ sse.out[s] # <<>>
    /\ sse.out[s][Len(sse.out[s])].type = "session_end"
    /\ sse.q[s] # <<>>
    /\ ~sse.entry

\* ---------------------------------------------------------------- C28
\* A leader and two teammates that list only the leader: w1 and w2 are not
\* in each other's connections.
RouteRoster ==
  <<Config("lead", "leader", <<>>), Config("w1", "teammate", <<"lead">>),
    Config("w2", "teammate", <<"lead">>)>>
InitRoute ==
  /\ configs = RouteRoster
  /\ runners = BuildRunners(RouteRoster)
  /\ call = NoCall
  /\ NoSession
  /\ NoPure
  /\ inbox = NoFiles
  /\ TaskStoreNew
  /\ NoCallers
\* the owners a model may name: an agent of the roster, and a name that is
\* no agent of the session
Ghost == "ghost"
NextRoute ==
  \/ \E a \in DOMAIN runners, type \in {"message", "broadcast", "shutdown_request"},
        r \in NameSet(RouteRoster) : ExecSendMessage(a, type, r, Absent)
  \/ ExecTaskCreate("lead", "s")
  \/ \E a \in {"lead", "w1"}, id \in 1..MaxTasks, o \in {"w1", Ghost} :
       ExecTaskUpdate(a, id, o, Absent)
SpecRoute == InitRoute /\ [][NextRoute]_vars

\* the inboxes a step wrote
Written(before, after) ==
  {b \in DOMAIN after : b \notin DOMAIN before \/ after[b] # before[b]}
\* self.team_agents as a set
TeamOf(a) == {runners[a].team_agents[i] : i \in DOMAIN runners[a].team_agents}

\* C28: a SendMessage call of agent A, whatever its type, writes only
\* inboxes of agents of A's team_agents; a call that names a recipient
\* outside them writes no inbox.
RoutingScopedByTeam ==
  [][(ncalls' = ncalls + 1 /\ call'.args.name = "SendMessage") =>
       Written(inbox, inbox') \subseteq TeamOf(call'.agent)]_vars

\* ---------------------------------------------------------------- C29
\* C29: every stored task whose owner is set is owned by an agent of the
\* roster, and no inbox exists for a name outside the roster.
OwnersAreAgents ==
  /\ \A id \in DOMAIN tasks :
       Truthy(tasks[id].owner) => tasks[id].owner \in NameSet(configs)
  /\ DOMAIN inbox \subseteq NameSet(configs)

\* ---------------------------------------------------------------- C30
\* the positions of one event in the trace of a turn
Positions(trace, event) == {i \in DOMAIN trace : trace[i] = event}

\* C30: in a turn that is not a shutdown short-circuit the first event is
\* turn_start, one thinking event was emitted for each provider call, every
\* tool_call is followed at once by its tool_result, the idle_notification
\* is appended to the parent's inbox before turn_end is emitted, and
\* turn_end is the last event of the turn.
TurnEventsInOrder ==
  \A a \in DOMAIN turn :
    turn[a].kind \in {"running", "normal"} =>
      LET trace == turn[a].trace IN
        /\ trace[1] = "turn_start"
        /\ Cardinality(Positions(trace, "thinking")) = turn[a].chats
        /\ \A i \in Positions(trace, "tool_call") :
             i < Len(trace) /\ trace[i + 1] = "tool_result"
        /\ \A i \in Positions(trace, "turn_end") :
             /\ i = Len(trace)
             /\ \A j \in Positions(trace, "idle_appended") : j < i
             /\ (Truthy(runners[a].lead_agent) /\ runners[a].lead_agent # a)
                  => Positions(trace, "idle_appended") # {}

\* ---------------------------------------------------------------- C34
\* following lead_agent from an agent reaches the agent without parent in at
\* most k steps
RECURSIVE ReachesTop(_, _)
ReachesTop(a, k) ==
  IF runners[a].lead_agent = NoAgent THEN TRUE
  ELSE IF k = 0 \/ runners[a].lead_agent \notin DOMAIN runners THEN FALSE
  ELSE ReachesTop(runners[a].lead_agent, k - 1)

\* C34: for every roster the parent relation built at construction is
\* acyclic: from every agent the top leader is reached in at most N-1
\* steps along lead_agent, and no agent is its own parent.
ParentsAcyclic ==
  DOMAIN runners # {} =>
    \A a \in DOMAIN runners :
      /\ ReachesTop(a, Len(configs) - 1)
      /\ runners[a].lead_agent # a

\* ---------------------------------------------------------------- C36
\* C36: a turn takes the shutdown short-circuit only when an unread
\* shutdown_request of its inbox was sent by "system" or by the agent's
\* parent.
ShortCircuitOnlyForParent ==
  [][\A a \in DOMAIN tpc :
       (tpc[a] = "ready" /\ turn'[a].kind = "shutdown") =>
         \E i \in UnreadRequests(inbox, a) :
           inbox[a][i].from \in {"system", runners[a].lead_agent}]_vars

\* ---------------------------------------------------------------- C33
\* C33: while stop() has not been called, a message of an agent's inbox goes
\* from unread to read only in a step that puts it into the inbox block of a
\* request of that agent to the model.
ReadOnlyWhenRequested ==
  [][stopPc' = "none" =>
       \A a \in DOMAIN inbox : \A i \in DOMAIN inbox[a] :
         (~inbox[a][i].read /\ inbox'[a][i].read) => i \in turn'[a].requested]_vars

\* ---------------------------------------------------------------- C32
\* the messages of "system" in an agent's inbox
FromSystem(inb, a) == SelectSeq(ReadRaw(inb, a), LAMBDA m : m.from = "system")
\* the value of idle_seconds in the iteration that a step completes
IdleAfter == IF sloc'.exit = "timeout" THEN sloc'.idle_seconds ELSE sloc.idle_seconds + 1

\* C32: a step of the scheduler that delivers a message of "system" is an
\* idle iteration with idle_seconds >= 60, idle_seconds - last_nudge_at >= 60
\* and a task that is neither completed nor deleted; it delivers at most one
\* message to an agent, and only to the parent of the owner of such a task,
\* or to the agent without parent when such a task has no owner.
NudgeOnlyWhenDue ==
  [][(\E a \in NameSet(configs) : Len(FromSystem(inbox', a)) > Len(FromSystem(inbox, a))) =>
       /\ spc = "sleep1"
       /\ IdleAfter >= 60
       /\ IdleAfter - sloc.last_nudge_at >= 60
       /\ spc' # "done" => sloc'.last_nudge_at = IdleAfter
       /\ \E id \in DOMAIN tasks : tasks[id].status \notin {"completed", "deleted"}
       /\ \A a \in NameSet(configs) :
            Len(FromSystem(inbox', a)) > Len(FromSystem(inbox, a)) =>
              /\ Len(FromSystem(inbox', a)) = Len(FromSystem(inbox, a)) + 1
              /\ Len(inbox'[a]) = Len(ReadRaw(inbox, a)) + 1
              /\ inbox'[a][Len(inbox'[a])].from = "system"
              /\ \E id \in DOMAIN tasks :
                   /\ tasks[id].status \notin {"completed", "deleted"}
                   /\ \/ /\ tasks[id].owner \in DOMAIN runners
                         /\ runners[tasks[id].owner].lead_agent = a
                      \/ /\ ~Truthy(tasks[id].owner)
                         /\ runners[a].lead_agent = NoAgent]_vars
\* the leader was nudged a second time, 120 idle seconds after its turn
NudgedTwice ==
  /\ used.nudges = 2
  /\ sloc.last_nudge_at = 120
  /\ \E id \in DOMAIN tasks : tasks[id].owner = "w1"

SessionEndIsLast ==
  [][ev.session_end > 0 =>
       /\ ev' = ev
       /\ \A a \in DOMAIN turn : turn'[a].trace = turn[a].trace]_vars

\* ---------------------------------------------------------------- C35
\* Sessions in which every model response is a final answer and stop() is
\* not called.  CycleRoster: two leaders below the top leader that list each
\* other.
CycleRoster ==
  <<Config("lead", "leader", <<>>), Config("w1", "leader", <<"w2">>),
    Config("w2", "leader", <<"w1">>)>>
QuietRosters == {ToolRoster, CycleRoster}
InitQuiet ==
  /\ configs \in QuietRosters
  /\ runners = [n \in {} |-> 0]
  /\ call = NoCall
  /\ NoSession
  /\ NoPure
  /\ inbox = NoFiles
  /\ TaskStoreNew
  /\ NoCallers
QuietTurnStep(a) == TurnStart(a) \/ ChatFinal(a)
\* Messages that are read are never looked at again: the scheduler,
\* _check_shutdown_request and read_unread skip them.  Between two rounds
\* they are dropped here, before the scheduler goes on, which keeps the
\* inboxes of an endless run finite.
Forgettable ==
  spc = "sleep05" /\ \E a \in DOMAIN inbox : SelectUnread(inbox[a]) # inbox[a]
Forget ==
  /\ Forgettable
  /\ inbox' = [a \in DOMAIN inbox |-> SelectUnread(inbox[a])]
  /\ UNCHANGED <<engVars, tasks, hwm, procVars, histVars, sessVars>>
QuietSchedStep == ~Forgettable /\ SchedStep
NextQuiet ==
  \/ Start
  \/ QuietSchedStep
  \/ \E a \in DOMAIN tpc : QuietTurnStep(a)
  \/ \E target \in {NoAgent, "w1"} : SendUserMessage(PlainText, target)
  \/ Forget
SpecQuiet ==
  /\ InitQuiet /\ [][NextQuiet]_vars
  /\ WF_vars(QuietSchedStep)
  /\ WF_vars(Forget)
  /\ \A a \in NameSet(CycleRoster) : WF_vars(a \in DOMAIN tpc /\ QuietTurnStep(a))

\* C35: a started session whose models use no tools, that is not stopped
\* and gets no more user messages, reaches an iteration that finds no unread
\* message, and its loop ends by the idle timeout with session_end emitted.
QuietSessionTimesOut ==
  /\ (spc # "none") ~> (spc \in {"sleep1", "done"})
  /\ (spc # "none") ~> (sloc.exit = "timeout" /\ ev.session_end = 1)

\* ---------------------------------------------------------------- C31
\* One run_turn of one runner, from _maybe_compact_history to the end of the
\* tool loop.  A tool call is its kind: "list" (TaskList), "msg" (SendMessage
\* of type message), "shutdown" (SendMessage of type shutdown_request).
SystemPrompt == [role |-> "system", content |-> [k |-> "system", n |-> 0]]
InboxBlock == [role |-> "user", content |-> [k |-> "inbox", n |-> 0]]
ToolResults(n) == [role |-> "user", content |-> [k |-> "results", n |-> n]]
\* build_messages: the system prompt, the history, and the unread messages
\* of the inbox as one user message
BuildMessages(history, unread) ==
  <<SystemPrompt>> \o history \o (IF unread THEN <<InboxBlock>> ELSE <<>>)

\* `for tc in response.tool_calls`: execute, collect the result, set
\* should_stop after a shutdown_request
NoneRun == [executed |-> <<>>, results |-> <<>>, should_stop |-> FALSE]
RunOne(tc, acc) ==
  [executed |-> Append(acc.executed, tc), results |-> Append(acc.results, tc),
   should_stop |-> acc.should_stop \/ tc = "shutdown"]
RECURSIVE RunCalls(_, _)
RunCallsToStop(calls, acc) ==
  IF calls = <<>> THEN acc
  ELSE IF Head(calls) = "shutdown" THEN RunOne(Head(calls), acc)
  ELSE RunCalls(Tail(calls), RunOne(Head(calls), acc))
RunCalls(calls, acc) ==
  IF calls = <<>> THEN acc ELSE RunCalls(Tail(calls), RunOne(Head(calls), acc))

\* the histories a runner can have between two turns
HistoryLengths == {0, 39, 40, 41, 60}
\* the tool calls of a response
ResponseCalls == {<<>>, <<"list">>, <<"shutdown">>, <<"msg", "shutdown", "list">>}

RunStep ==
  UNCHANGED <<configs, runners, call, conv, wire, lazy, sse, storeVars, procVars, histVars,
              sessVars>>
InitRun ==
  /\ NoEngine
  /\ inbox = NoFiles
  /\ TaskStoreNew
  /\ NoCallers
DrawRun(n) ==
  /\ rturn.pc = "none"
  /\ rturn' = [NoRun EXCEPT !.pc = "idle", !.history = HistoryOf(n, 1)]
  /\ RunStep
\* run_turn up to the first provider.chat
CompactNever(h) == h
CompactAtStart(h) == MaybeCompactHistory(h)
BeginTurn(unread) ==
  /\ rturn.pc = "idle"
  /\ LET h == CompactAtStart(rturn.history)
     IN rturn' = [NoRun EXCEPT !.pc = "chat", !.history = h,
                               !.messages = BuildMessages(h, unread),
                               !.loop_count = 1, !.chats = 1, !.first = Len(h),
                               !.block = unread]
  /\ RunStep
\* provider.chat returned: the content, if any, then the tool calls, then
\* the next pass of the loop or its end
ChatReturns(content, calls) ==
  /\ rturn.pc = "chat"
  /\ LET said == IF content THEN <<Entry("assistant", Len(rturn.history) + 100)>> ELSE <<>>
         r == RunCalls(calls, NoneRun)
         told == IF calls = <<>> THEN <<>>
                 ELSE <<ToolResults(Len(rturn.history) + 200)>>
         goes == calls # <<>> /\ LoopGoesOn(rturn.loop_count, r.should_stop)
     IN rturn' = [rturn EXCEPT
                    !.history = @ \o said \o told,
                    !.messages = @ \o said \o told,
                    !.should_stop = r.should_stop,
                    !.calls = calls, !.executed = r.executed, !.results = r.results,
                    !.loop_count = IF goes THEN @ + 1 ELSE @,
                    !.chats = IF goes THEN @ + 1 ELSE @,
                    !.pc = IF goes THEN "chat" ELSE "done"]
  /\ RunStep
\* provider.chat raised
ChatRaises ==
  /\ rturn.pc = "chat"
  /\ rturn' = [rturn EXCEPT !.pc = "done", !.calls = <<>>, !.executed = <<>>,
                            !.results = <<>>]
  /\ RunStep
NextRun ==
  \/ \E n \in HistoryLengths : DrawRun(n)
  \/ \E unread \in BOOLEAN : BeginTurn(unread)
  \/ \E content \in BOOLEAN, calls \in ResponseCalls : ChatReturns(content, calls)
  \/ ChatRaises
SpecRun == InitRun /\ [][NextRun]_vars

\* the entries of a history that hold tool results
ResultEntries(h) == {i \in DOMAIN h : h[i].content.k = "results"}

\* C31: when a response holds a shutdown_request call, all its tool calls
\* are executed in the order of the response, their results are appended to
\* the history as one user message, and the turn calls the provider no more.
ShutdownCallEndsTurnAfterAllTools ==
  /\ [][(rturn.pc = "chat" /\ rturn' # rturn
          /\ \E i \in DOMAIN rturn'.calls : rturn'.calls[i] = "shutdown") =>
          /\ rturn'.executed = rturn'.calls
          /\ rturn'.results = rturn'.calls
          /\ Cardinality(ResultEntries(rturn'.history))
               = Cardinality(ResultEntries(rturn.history)) + 1
          /\ rturn'.history[Len(rturn'.history)].role = "user"
          /\ Len(rturn'.history) \in ResultEntries(rturn'.history)
          /\ rturn'.pc = "done"
          /\ rturn'.chats = rturn.chats]_vars
  /\ [][rturn.pc = "done" => rturn' = rturn]_vars
\* a response of three tool calls with the shutdown_request in the middle
\* ended the turn in its second pass
ShutdownInTheMiddle ==
  /\ rturn.pc = "done"
  /\ rturn.calls = <<"msg", "shutdown", "list">>
  /\ rturn.executed = <<"msg", "shutdown", "list">>
  /\ rturn.chats = 2

\* ---------------------------------------------------------------- C39
\* C39: a conversation history never holds more than 40 + 2 * MAX_TOOL_LOOPS
\* entries, it holds at most 40 when the first provider call of a turn is
\* made, and every entry has the role user or assistant.
HistoryBounded ==
  /\ Len(rturn.history) <= MAX_HISTORY_MESSAGES + 2 * MAX_TOOL_LOOPS
  /\ rturn.chats > 0 => rturn.first <= MAX_HISTORY_MESSAGES
  /\ \A i \in DOMAIN rturn.history : rturn.history[i].role \in {"user", "assistant"}
\* a turn that began with 40 entries made ten provider calls, each answered
\* with text and a tool call
HistoryFull ==
  /\ rturn.pc = "done"
  /\ rturn.first = MAX_HISTORY_MESSAGES
  /\ rturn.chats = MAX_TOOL_LOOPS
  /\ Len(rturn.history) = MAX_HISTORY_MESSAGES + 2 * MAX_TOOL_LOOPS

\* ---------------------------------------------------------------- C40
\* C40: an inbox block that a turn put into its model request is kept in the
\* conversation history, and at the end of every pass of the provider loop
\* the request list is the system prompt followed by the history.
InboxBlockKeptInHistory ==
  (rturn.pc = "done" \/ (rturn.pc = "chat" /\ rturn.chats > 1)) =>
    /\ rturn.block => \E i \in DOMAIN rturn.history : rturn.history[i] = InboxBlock
    /\ rturn.messages = <<SystemPrompt>> \o rturn.history

====
